---- MODULE Spec2Model ----
(***************************************************************************)
(* Model of the STAMPS bulk generator: the rule validator (validateAll,    *)
(* in its two variants), the batch serializer (generateXml, finalizeBatch, *)
(* generateInstrumentXml, escapeXml) and the field mapper (parseFile).     *)
(*                                                                         *)
(* JavaScript values are tagged records: Undef, Null, Str(s) with s a      *)
(* sequence of one-character strings, Num(n), Obj(f) with f a function     *)
(* from property names to values.  A property that is not in the domain    *)
(* of an object reads as Undef, as in JavaScript.                          *)
(***************************************************************************)
EXTENDS Integers, Sequences, FiniteSets, TLC

VARIABLES
    jsonData,              \* parseFile: the rows of the sheet (header -> cell)
    attachmentFiles,       \* validateAll: the attachment store
    validationResults,     \* the report validateAll returned, Null before
    stage,                 \* position of the map-and-validate pipeline
    mappedData,            \* the mapped records (validateAll, generateXml)
    getAttachmentBase64,   \* generateXml: the attachment resolver
    hasProgress,           \* generateXml: whether progressCallback is supplied
    i,                     \* generateXml: loop index (0-based, as in the code)
    batches,               \* generateXml: finalized batches
    currentBatch,          \* generateXml: the running batch
    progress,              \* the calls received by progressCallback, in order
    pc,                    \* position of generateXml: "loop" | "done"
    currentStep,           \* app: state.currentStep
    requiredAttachments,   \* app: state.requiredAttachments
    missingCount,          \* app: state.missingCount
    generatedFiles,        \* app: state.generatedFiles
    proceedStep2Disabled,  \* app: elements.proceedStep2.disabled
    proceedStep4Disabled,  \* app: elements.proceedStep4.disabled
    startGenerationDisabled, \* app: elements.startGeneration.disabled
    validatorVariant,      \* app: which validateAll the build imports
    pendingExcel,          \* app: Excel uploads awaiting fetch and parseFile
    pendingAttachments,    \* app: files of an attachment upload still to read
    lastValidated,         \* app: the inputs validationResults was computed from
    projects,              \* server: db.projects
    generations,           \* server: db.generations
    nextIds                \* server: db._nextIds

genVars == <<getAttachmentBase64, hasProgress, i, batches, currentBatch,
             progress, pc>>

valVars == <<jsonData, attachmentFiles, validationResults, stage>>

appVars == <<currentStep, requiredAttachments, missingCount, generatedFiles,
             proceedStep2Disabled, proceedStep4Disabled, startGenerationDisabled,
             validatorVariant, pendingExcel, pendingAttachments, lastValidated>>

dbVars == <<projects, generations, nextIds>>

vars == <<mappedData, genVars, valVars, appVars, dbVars>>

-----------------------------------------------------------------------------
(* JavaScript values *)

Undef == [k |-> "undef"]
Null == [k |-> "null"]
Str(s) == [k |-> "str", s |-> s]
Num(n) == [k |-> "num", n |-> n]
Obj(f) == [k |-> "obj", f |-> f]

EmptyStr == Str(<< >>)

\* JavaScript truthiness: undefined, null, '' and 0 are falsy.
Truthy(v) ==
    CASE v.k = "undef" -> FALSE
      [] v.k = "null" -> FALSE
      [] v.k = "str" -> v.s # << >>
      [] v.k = "num" -> v.n # 0
      [] OTHER -> TRUE

\* a || b
OrElse(a, b) == IF Truthy(a) THEN a ELSE b

\* obj[key] on a plain object given as a function
Get(f, key) == IF key \in DOMAIN f THEN f[key] ELSE Undef

\* value.key on any value: a primitive has no such own property
Prop(v, key) == IF v.k = "obj" THEN Get(v.f, key) ELSE Undef

\* obj[key] = v on a plain object given as a function
With(record, f, v) == [x \in DOMAIN record \cup {f} |-> IF x = f THEN v ELSE record[x]]

DigitChar(d) ==
    CASE d = 0 -> "0" [] d = 1 -> "1" [] d = 2 -> "2" [] d = 3 -> "3"
      [] d = 4 -> "4" [] d = 5 -> "5" [] d = 6 -> "6" [] d = 7 -> "7"
      [] d = 8 -> "8" [] d = 9 -> "9"

RECURSIVE NatToStr(_)
NatToStr(n) ==
    IF n < 10 THEN <<DigitChar(n)>>
    ELSE NatToStr(n \div 10) \o <<DigitChar(n % 10)>>

\* String(v) for the strings and integers the model uses
JsString(v) ==
    CASE v.k = "str" -> v.s
      [] v.k = "num" -> IF v.n < 0 THEN <<"-">> \o NatToStr(0 - v.n)
                        ELSE NatToStr(v.n)
      [] v.k = "undef" -> <<"u", "n", "d", "e", "f", "i", "n", "e", "d">>
      [] v.k = "null" -> <<"n", "u", "l", "l">>

\* The one multi-byte character of the model's alphabet: U+00E9, two bytes
\* in UTF-8 and one UTF-16 code unit.
EAcute == "U+00E9"

ByteWidth(c) == IF c = EAcute THEN 2 ELSE 1

\* new Blob([s]).size: the UTF-8 byte length
RECURSIVE Utf8Len(_)
Utf8Len(s) == IF s = << >> THEN 0 ELSE ByteWidth(Head(s)) + Utf8Len(Tail(s))

IsSpace(c) == c = " "

RECURSIVE TrimStart(_)
TrimStart(s) ==
    IF s = << >> THEN << >>
    ELSE IF IsSpace(Head(s)) THEN TrimStart(Tail(s)) ELSE s

RECURSIVE TrimEnd(_)
TrimEnd(s) ==
    IF s = << >> THEN << >>
    ELSE IF IsSpace(s[Len(s)]) THEN TrimEnd(SubSeq(s, 1, Len(s) - 1)) ELSE s

\* String.prototype.trim
Trim(s) == TrimEnd(TrimStart(s))

-----------------------------------------------------------------------------
(* Data Validation Module.  The source holds two variants of validateAll:  *)
(* the strict one (lines 50-253) and the lenient one (lines 364-503).      *)
(* A field path 'transferor.rocNo' is the sequence <<"transferor",         *)
(* "rocNo">> of its parts; an issue's message is left out, being a fixed   *)
(* text per check.                                                         *)

\* MANDATORY_FIELDS of the strict variant
MANDATORY_FIELDS_STRICT ==
    << <<"refNo">>, <<"instrumentDate">>, <<"principal">>,
       <<"typeOfInstrumentOthers">>,
       <<"transferor", "type">>, <<"transferor", "name">>,
       <<"transferor", "street1">>, <<"transferor", "street2">>,
       <<"transferor", "postcode">>, <<"transferor", "city">>,
       <<"transferor", "state">>, <<"transferor", "country">>,
       <<"transferor", "telNo">>,
       <<"transferee", "type">>, <<"transferee", "name">>,
       <<"transferee", "street1">>, <<"transferee", "street2">>,
       <<"transferee", "postcode">>, <<"transferee", "city">>,
       <<"transferee", "state">>, <<"transferee", "country">>,
       <<"transferee", "telNo">> >>

\* MANDATORY_FIELDS of the lenient variant
MANDATORY_FIELDS ==
    << <<"refNo">>, <<"instrumentDate">>, <<"instrumentDateReceive">>,
       <<"principal">>, <<"typeOfInstrument">>,
       <<"transferor", "type">>, <<"transferor", "name">>,
       <<"transferee", "type">>, <<"transferee", "name">>,
       <<"consideration">>, <<"noOfCopy">> >>

\* as DATE_FIELDS, the received date checked first
DATE_FIELDS_ReceivedFirst == <<"instrumentDateReceive", "instrumentDate">>

DATE_FIELDS == <<"instrumentDate", "instrumentDateReceive">>

NUMERIC_FIELDS ==
    <<"principal", "subsidiary", "typeOfInstrument", "consideration", "noOfCopy">>

RECURSIVE getNestedValue(_, _)
getNestedValue(current, parts) ==
    IF parts = << >> THEN current
    ELSE IF current.k = "undef" \/ current.k = "null" THEN Undef
    ELSE getNestedValue(Prop(current, Head(parts)), Tail(parts))

Issue(rowNumber, fieldName, errorType) ==
    [rowNumber |-> rowNumber, fieldName |-> fieldName, errorType |-> errorType]

\* value === undefined || value === null || value === ''
IsMissing(value) ==
    value.k = "undef" \/ value.k = "null" \/ (value.k = "str" /\ value.s = << >>)

RECURSIVE MandatoryIssues(_, _, _)
MandatoryIssues(record, rowNumber, fields) ==
    IF fields = << >> THEN << >>
    ELSE (IF IsMissing(getNestedValue(Obj(record), Head(fields)))
          THEN <<Issue(rowNumber, Head(fields), "MISSING_FIELD")>>
          ELSE << >>)
         \o MandatoryIssues(record, rowNumber, Tail(fields))

IsDigit(c) == c \in {"0", "1", "2", "3", "4", "5", "6", "7", "8", "9"}

\* as DATE_REGEX_test, the pattern lacking its end anchor
DATE_REGEX_test_Unanchored(s) ==
    /\ Len(s) >= 10
    /\ \A n \in {1, 2, 4, 5, 7, 8, 9, 10} : IsDigit(s[n])
    /\ s[3] = "/"
    /\ s[6] = "/"

\* DATE_REGEX.test(s) for /^\d{2}\/\d{2}\/\d{4}$/
DATE_REGEX_test(s) ==
    /\ Len(s) = 10
    /\ \A n \in {1, 2, 4, 5, 7, 8, 9, 10} : IsDigit(s[n])
    /\ s[3] = "/"
    /\ s[6] = "/"

RECURSIVE DateIssues(_, _, _)
DateIssues(record, rowNumber, fields) ==
    IF fields = << >> THEN << >>
    ELSE (LET value == Get(record, Head(fields))
          IN IF Truthy(value) /\ ~DATE_REGEX_test(JsString(value))
             THEN <<Issue(rowNumber, <<Head(fields)>>, "INVALID_DATE")>>
             ELSE << >>)
         \o DateIssues(record, rowNumber, Tail(fields))

\* Whether parseFloat finds a number at the start of s: optional white
\* space, an optional sign, then a digit or a point followed by a digit.
HasNumericPrefix(s) ==
    LET t == TrimStart(s)
        u == IF t # << >> /\ Head(t) \in {"+", "-"} THEN Tail(t) ELSE t
    IN /\ u # << >>
       /\ \/ IsDigit(u[1])
          \/ (u[1] = "." /\ Len(u) >= 2 /\ IsDigit(u[2]))

\* isNaN(parseFloat(value))
ParseFloatIsNaN(value) ==
    CASE value.k = "num" -> FALSE
      [] value.k = "str" -> ~HasNumericPrefix(value.s)
      [] OTHER -> TRUE

RECURSIVE NumberIssues(_, _, _)
NumberIssues(record, rowNumber, fields) ==
    IF fields = << >> THEN << >>
    ELSE (LET value == Get(record, Head(fields))
          IN IF value.k # "undef" /\ value # EmptyStr /\ ParseFloatIsNaN(value)
             THEN <<Issue(rowNumber, <<Head(fields)>>, "INVALID_NUMBER")>>
             ELSE << >>)
         \o NumberIssues(record, rowNumber, Tail(fields))

\* attachmentFiles && attachmentFiles.has(filename)
StoreHas(files, filename) == files.k = "map" /\ filename \in files.keys

\* as AttachmentErrors, looking the name up as it stands in the record
AttachmentErrors_Untrimmed(record, rowNumber, files) ==
    LET attachment == Get(record, "attachment")
    IN IF Truthy(attachment) /\ ~StoreHas(files, JsString(attachment))
       THEN <<Issue(rowNumber, <<"attachment">>, "MISSING_FILE")>>
       ELSE << >>

\* The attachment check; the attachment of a record is a string when set.
AttachmentErrors(record, rowNumber, files) ==
    LET attachment == Get(record, "attachment")
    IN IF Truthy(attachment) /\ ~StoreHas(files, Trim(JsString(attachment)))
       THEN <<Issue(rowNumber, <<"attachment">>, "MISSING_FILE")>>
       ELSE << >>

AttachmentWarnings(record, rowNumber, files) ==
    IF Truthy(Get(record, "attachment")) THEN << >>
    ELSE <<Issue(rowNumber, <<"attachment">>, "MISSING_ATTACHMENT")>>

\* as IsCompanyType, forgetting the numeric form
IsCompanyType_StringOnly(type) == type.k = "str" /\ type.s = <<"1">>

\* type === '1' || type === 1
IsCompanyType(type) ==
    (type.k = "str" /\ type.s = <<"1">>) \/ (type.k = "num" /\ type.n = 1)

\* type === '0' || type === 0
IsIndividualType(type) ==
    (type.k = "str" /\ type.s = <<"0">>) \/ (type.k = "num" /\ type.n = 0)

\* The conditional checks of the strict variant for one party: errors.
PartyErrorsStrict(record, rowNumber, party) ==
    LET p == Get(record, party)
        type == Prop(p, "type")
        hasIC == Truthy(Prop(p, "icNo"))
        hasPassport == Truthy(Prop(p, "passportNo"))
    IN IF ~Truthy(p) THEN << >>
       ELSE IF IsCompanyType(type)
       THEN (IF ~Truthy(Prop(p, "rocNo"))
             THEN <<Issue(rowNumber, <<party, "rocNo">>, "MISSING_FIELD")>>
             ELSE << >>)
            \o (IF ~Truthy(Prop(p, "busType"))
                THEN <<Issue(rowNumber, <<party, "busType">>, "MISSING_FIELD")>>
                ELSE << >>)
       ELSE IF IsIndividualType(type)
       THEN IF ~hasIC /\ ~hasPassport
            THEN <<Issue(rowNumber, <<party, "icNo">>, "MISSING_FIELD")>>
            ELSE IF hasIC
            THEN IF ~Truthy(Prop(p, "nationality"))
                 THEN <<Issue(rowNumber, <<party, "nationality">>, "MISSING_FIELD")>>
                 ELSE << >>
            ELSE IF ~Truthy(Prop(p, "passportCountry"))
                 THEN <<Issue(rowNumber, <<party, "passportCountry">>, "MISSING_FIELD")>>
                 ELSE << >>
       ELSE << >>

\* The conditional checks of the lenient variant for one party: warnings.
PartyWarnings(record, rowNumber, party) ==
    LET p == Get(record, party)
        type == Prop(p, "type")
    IN IF ~Truthy(p) THEN << >>
       ELSE IF IsIndividualType(type)
       THEN IF ~Truthy(Prop(p, "icNo")) /\ ~Truthy(Prop(p, "pasportNo"))
            THEN <<Issue(rowNumber, <<party, "icNo">>, "MISSING_ID")>>
            ELSE << >>
       ELSE IF IsCompanyType(type)
       THEN IF ~Truthy(Prop(p, "rocNo"))
            THEN <<Issue(rowNumber, <<party, "rocNo">>, "MISSING_ID")>>
            ELSE << >>
       ELSE << >>

\* The body of the record loop of the strict variant
ValidateRecordStrict(record, files) ==
    LET rowNumber == Get(record, "_rowNumber")
    IN [ rowErrors |->
             MandatoryIssues(record, rowNumber, MANDATORY_FIELDS_STRICT)
             \o DateIssues(record, rowNumber, DATE_FIELDS)
             \o AttachmentErrors(record, rowNumber, files)
             \o PartyErrorsStrict(record, rowNumber, "transferor")
             \o PartyErrorsStrict(record, rowNumber, "transferee"),
         rowWarnings |->
             NumberIssues(record, rowNumber, NUMERIC_FIELDS)
             \o AttachmentWarnings(record, rowNumber, files) ]

\* as ValidateRecord, with the numeric check pushing to rowErrors
ValidateRecord_NumberAsError(record, files) ==
    LET rowNumber == Get(record, "_rowNumber")
    IN [ rowErrors |->
             MandatoryIssues(record, rowNumber, MANDATORY_FIELDS)
             \o DateIssues(record, rowNumber, DATE_FIELDS)
             \o NumberIssues(record, rowNumber, NUMERIC_FIELDS)
             \o AttachmentErrors(record, rowNumber, files),
         rowWarnings |->
             AttachmentWarnings(record, rowNumber, files)
             \o PartyWarnings(record, rowNumber, "transferor")
             \o PartyWarnings(record, rowNumber, "transferee") ]

\* The body of the record loop of the lenient variant
ValidateRecord(record, files) ==
    LET rowNumber == Get(record, "_rowNumber")
    IN [ rowErrors |->
             MandatoryIssues(record, rowNumber, MANDATORY_FIELDS)
             \o DateIssues(record, rowNumber, DATE_FIELDS)
             \o AttachmentErrors(record, rowNumber, files),
         rowWarnings |->
             NumberIssues(record, rowNumber, NUMERIC_FIELDS)
             \o AttachmentWarnings(record, rowNumber, files)
             \o PartyWarnings(record, rowNumber, "transferor")
             \o PartyWarnings(record, rowNumber, "transferee") ]

\* as RowCountsAsValid, with warnings blocking too
RowCountsAsValid_NoWarnings(row) == row.rowErrors = << >> /\ row.rowWarnings = << >>

\* rowErrors.length === 0
RowCountsAsValid(row) == row.rowErrors = << >>

\* The aggregation of the record loop from the n-th record on
RECURSIVE Aggregate(_, _, _, _, _)
Aggregate(variant, data, files, n, acc) ==
    IF n > Len(data) THEN acc
    ELSE LET row == IF variant = "strict"
                    THEN ValidateRecordStrict(data[n], files)
                    ELSE ValidateRecord(data[n], files)
         IN Aggregate(variant, data, files, n + 1,
                [ errors |-> acc.errors \o row.rowErrors,
                  warnings |-> acc.warnings \o row.rowWarnings,
                  validCount |-> acc.validCount
                                    + (IF RowCountsAsValid(row) THEN 1 ELSE 0) ])

\* as Report, counting the records as valid all together or not at all
Report_AllOrNothing(variant, data, files) ==
    LET acc == Aggregate(variant, data, files, 1,
                         [errors |-> << >>, warnings |-> << >>, validCount |-> 0])
    IN [ k |-> "report",
         variant |-> variant,
         valid |-> (Len(acc.errors) = 0),
         validCount |-> IF Len(acc.errors) = 0 THEN Len(data) ELSE 0,
         errorCount |-> Len(acc.errors),
         warningCount |-> Len(acc.warnings),
         errors |-> acc.errors,
         warnings |-> acc.warnings ]

\* The report either variant returns
Report(variant, data, files) ==
    LET acc == Aggregate(variant, data, files, 1,
                         [errors |-> << >>, warnings |-> << >>, validCount |-> 0])
    IN [ k |-> "report",
         variant |-> variant,
         valid |-> (Len(acc.errors) = 0),
         validCount |-> acc.validCount,
         errorCount |-> Len(acc.errors),
         warningCount |-> Len(acc.warnings),
         errors |-> acc.errors,
         warnings |-> acc.warnings ]

validateAllStrict(data, files) == Report("strict", data, files)

validateAll(data, files) == Report("lenient", data, files)

\* The class runValidation renders an issue with
IssueClass(issue) ==
    IF issue.errorType = "MISSING_FIELD" \/ issue.errorType = "INVALID_DATE"
       \/ issue.errorType = "MISSING_FILE"
    THEN "error" ELSE "warning"

-----------------------------------------------------------------------------
(* XML Generator Module *)

MAX_BATCH_SIZE == 29 * 1024 * 1024

\* XML_HEADER.length and XML_FOOTER.length; both strings are ASCII, so
\* their UTF-8 byte lengths are the same numbers.
XML_HEADER_LENGTH == 95
XML_FOOTER_LENGTH == 16
XML_HEADER_BYTES == 95
XML_FOOTER_BYTES == 16

\* one pass of String.prototype.replace(/c/g, rep)
RECURSIVE ReplaceAll(_, _, _)
ReplaceAll(s, c, rep) ==
    IF s = << >> THEN << >>
    ELSE (IF Head(s) = c THEN rep ELSE <<Head(s)>>) \o ReplaceAll(Tail(s), c, rep)

\* as escapeXml, with the ampersand pass made last
escapeXml_AmpersandLast(str) ==
    IF str.k = "null" \/ str.k = "undef" THEN << >>
    ELSE
        LET s0 == JsString(str)
            s1 == ReplaceAll(s0, "<", <<"&", "l", "t", ";">>)
            s2 == ReplaceAll(s1, ">", <<"&", "g", "t", ";">>)
            s3 == ReplaceAll(s2, "\"", <<"&", "q", "u", "o", "t", ";">>)
            s4 == ReplaceAll(s3, "'", <<"&", "a", "p", "o", "s", ";">>)
        IN ReplaceAll(s4, "&", <<"&", "a", "m", "p", ";">>)

escapeXml(str) ==
    IF str.k = "null" \/ str.k = "undef" THEN << >>
    ELSE
        LET s0 == JsString(str)
            s1 == ReplaceAll(s0, "&", <<"&", "a", "m", "p", ";">>)
            s2 == ReplaceAll(s1, "<", <<"&", "l", "t", ";">>)
            s3 == ReplaceAll(s2, ">", <<"&", "g", "t", ";">>)
            s4 == ReplaceAll(s3, "\"", <<"&", "q", "u", "o", "t", ";">>)
        IN ReplaceAll(s4, "'", <<"&", "a", "p", "o", "s", ";">>)

\* The elements of <instrument> before <transferor>, in template order
INSTRUMENT_HEAD ==
    <<"refNo", "instrumentDate", "instrumentDateReceive", "principal",
      "subsidiary", "typeOfInstrument", "typeOfInstrumentOthers">>

\* The elements of <transferor> and of <transferee>, in template order
PARTY_ELEMENTS ==
    <<"type", "name", "nationality", "icNo", "pasportNo", "pasportCountry",
      "rocNo", "busType", "incomeTaxNo", "incomeTaxBranch", "street1",
      "street2", "street3", "postcode", "city", "state", "country", "telNo",
      "email">>

\* The elements of <instrument> after <transferee>, before <attachment>
INSTRUMENT_TAIL ==
    <<"consideration", "duration", "durationDesc", "colLand", "colLandDesc",
      "colShare", "colDeposit", "colOthers", "colOthersDesc", "noOfCopy",
      "exemption", "exemptionOthers", "remession", "remessionOthers">>

\* The literal characters of the instrument template (all ASCII): what is
\* left of the template string when its 61 substitutions are empty.
TEMPLATE_BYTES == 2185

\* ${escapeXml(record.f || '')}
RenderFlat(record, f) == escapeXml(OrElse(Get(record, f), EmptyStr))

\* as RenderParty, the value interpolated as it is: ${record.party?.f}
RenderParty_Interpolated(record, party, f) ==
    LET p == Get(record, party)
        v == IF p.k = "undef" \/ p.k = "null" THEN Undef ELSE Prop(p, f)
    IN JsString(v)

\* ${escapeXml(record.party?.f || '')}
RenderParty(record, party, f) ==
    LET p == Get(record, party)
        v == IF p.k = "undef" \/ p.k = "null" THEN Undef ELSE Prop(p, f)
    IN escapeXml(OrElse(v, EmptyStr))

\* What a resolver does for a (trimmed) filename: the app's resolver
\* returns the stored data or ''; a resolver may also throw.
Resolve(resolver, name) ==
    IF name \in DOMAIN resolver.out THEN resolver.out[name]
    ELSE [k |-> "empty"]

\* as AttachmentBase64Len, without the fallback to '': a lookup that
\* returns nothing is rendered as the text 'undefined'
AttachmentBase64Len_NoFallback(record, resolver) ==
    LET attachmentName == OrElse(Get(record, "attachment"), EmptyStr)
    IN IF ~Truthy(attachmentName) THEN 0
       ELSE IF attachmentName.k # "str" THEN 0
       ELSE IF ~resolver.callable THEN 0
       ELSE LET r == Resolve(resolver, Trim(attachmentName.s))
            IN IF r.k = "data" THEN r.len
               ELSE IF r.k = "empty" THEN 9 ELSE 0

\* The text of the attachment element: its length, the payload being
\* base64 (ASCII) text.  Anything thrown inside the try block (the
\* resolver throwing, the resolver not being callable, trim missing on a
\* non-string) is caught and leaves ''.
AttachmentBase64Len(record, resolver) ==
    LET attachmentName == OrElse(Get(record, "attachment"), EmptyStr)
    IN IF ~Truthy(attachmentName) THEN 0
       ELSE IF attachmentName.k # "str" THEN 0
       ELSE IF ~resolver.callable THEN 0
       ELSE LET r == Resolve(resolver, Trim(attachmentName.s))
            IN IF r.k = "data" THEN r.len ELSE 0

\* The instrument fragment: the rendered text of the 59 field elements in
\* template order, the name attribute and the length of the payload.
generateInstrumentXml(record, resolver) ==
    [ text |->
          [n \in 1..Len(INSTRUMENT_HEAD) |-> RenderFlat(record, INSTRUMENT_HEAD[n])]
          \o [n \in 1..Len(PARTY_ELEMENTS) |->
                 RenderParty(record, "transferor", PARTY_ELEMENTS[n])]
          \o [n \in 1..Len(PARTY_ELEMENTS) |->
                 RenderParty(record, "transferee", PARTY_ELEMENTS[n])]
          \o [n \in 1..Len(INSTRUMENT_TAIL) |-> RenderFlat(record, INSTRUMENT_TAIL[n])],
      name |-> escapeXml(OrElse(Get(record, "attachment"), EmptyStr)),
      base64Len |-> AttachmentBase64Len(record, resolver) ]

\* The UTF-8 byte length of the texts together, summed by halves
RECURSIVE SumUtf8(_)
SumUtf8(texts) ==
    IF texts = << >> THEN 0
    ELSE IF Len(texts) = 1 THEN Utf8Len(texts[1])
    ELSE LET half == Len(texts) \div 2
         IN SumUtf8(SubSeq(texts, 1, half))
            + SumUtf8(SubSeq(texts, half + 1, Len(texts)))

\* new Blob([instrumentXml]).size
InstrumentSize(x) == TEMPLATE_BYTES + SumUtf8(x.text) + Utf8Len(x.name) + x.base64Len

RECURSIVE SumInstrumentSizes(_)
SumInstrumentSizes(xs) ==
    IF xs = << >> THEN 0 ELSE InstrumentSize(Head(xs)) + SumInstrumentSizes(Tail(xs))

\* new Blob([XML_HEADER + instruments.join('') + XML_FOOTER]).size
ContentSize(instruments) ==
    XML_HEADER_BYTES + SumInstrumentSizes(instruments) + XML_FOOTER_BYTES

\* as BatchFilename, with every batch taking the first batch's name
BatchFilename_AlwaysFirst(batchNumber) == <<"Output", ".xml">>

\* batchNumber === 1 ? 'Output.xml' : `Output_Batch_${batchNumber}.xml`
BatchFilename(batchNumber) ==
    IF batchNumber = 1 THEN <<"Output", ".xml">>
    ELSE <<"Output", "_Batch_">> \o NatToStr(batchNumber) \o <<".xml">>

\* The content is kept as the list of fragments between header and footer.
finalizeBatch(batch, batchNumber) ==
    [ filename |-> BatchFilename(batchNumber),
      content |-> batch.instruments,
      size |-> ContentSize(batch.instruments),
      recordCount |-> batch.recordCount ]

\* as EmptyBatch, the size starting without the footer
EmptyBatch_HeaderOnly ==
    [ instruments |-> << >>,
      size |-> XML_HEADER_LENGTH,
      recordCount |-> 0 ]

EmptyBatch ==
    [ instruments |-> << >>,
      size |-> XML_HEADER_LENGTH + XML_FOOTER_LENGTH,
      recordCount |-> 0 ]

\* as MustClose, testing the running batch without the incoming fragment
MustClose_IgnoresIncoming(batch, instrumentSize) ==
    batch.size > MAX_BATCH_SIZE /\ Len(batch.instruments) > 0

\* as MustClose, never closing for a fragment that cannot fit any batch
MustClose_NotForOversized(batch, instrumentSize) ==
    /\ batch.size + instrumentSize > MAX_BATCH_SIZE
    /\ Len(batch.instruments) > 0
    /\ XML_HEADER_LENGTH + XML_FOOTER_LENGTH + instrumentSize <= MAX_BATCH_SIZE

\* as MustClose, closing already when the fragment fills the batch exactly
MustClose_AtLimit(batch, instrumentSize) ==
    batch.size + instrumentSize >= MAX_BATCH_SIZE /\ Len(batch.instruments) > 0

\* the batch-boundary test of the loop body
MustClose(batch, instrumentSize) ==
    batch.size + instrumentSize > MAX_BATCH_SIZE /\ Len(batch.instruments) > 0

\* as Percentage, with Math.floor in place of Math.round
Percentage_Floor(current, total) == (100 * current) \div total

\* Math.round(((i + 1) / totalRecords) * 100): round half up.  For the
\* totals of the model the floating-point quotient rounds as the exact one.
Percentage(current, total) == (200 * current + total) \div (2 * total)

\* One iteration of the for loop of generateXml.
GenerateStep ==
    /\ pc = "loop"
    /\ i < Len(mappedData)
    /\ LET record == mappedData[i + 1]
           instrumentXml == generateInstrumentXml(record, getAttachmentBase64)
           instrumentSize == InstrumentSize(instrumentXml)
           close == MustClose(currentBatch, instrumentSize)
           batches1 == IF close
                       THEN Append(batches, finalizeBatch(currentBatch, Len(batches) + 1))
                       ELSE batches
           batch1 == IF close THEN EmptyBatch ELSE currentBatch
       IN /\ batches' = batches1
          /\ currentBatch' =
                [ instruments |-> Append(batch1.instruments, instrumentXml),
                  size |-> batch1.size + instrumentSize,
                  recordCount |-> batch1.recordCount + 1 ]
          /\ progress' =
                IF hasProgress
                THEN Append(progress,
                            [ current |-> i + 1,
                              total |-> Len(mappedData),
                              percentage |-> Percentage(i + 1, Len(mappedData)),
                              currentBatch |-> Len(batches1) + 1 ])
                ELSE progress
    /\ i' = i + 1
    /\ UNCHANGED <<mappedData, getAttachmentBase64, hasProgress, pc>>
    /\ UNCHANGED <<valVars, appVars, dbVars>>

\* as GenerateFinish, returning without finalizing the last batch
GenerateFinish_DropsLast ==
    /\ pc = "loop"
    /\ i = Len(mappedData)
    /\ pc' = "done"
    /\ UNCHANGED <<mappedData, getAttachmentBase64, hasProgress, i, batches,
                   currentBatch, progress>>
    /\ UNCHANGED <<valVars, appVars, dbVars>>

\* After the loop: finalize the last batch and return.
GenerateFinish ==
    /\ pc = "loop"
    /\ i = Len(mappedData)
    /\ batches' =
          IF Len(currentBatch.instruments) > 0
          THEN Append(batches, finalizeBatch(currentBatch, Len(batches) + 1))
          ELSE batches
    /\ pc' = "done"
    /\ UNCHANGED <<mappedData, getAttachmentBase64, hasProgress, i,
                   currentBatch, progress>>
    /\ UNCHANGED <<valVars, appVars, dbVars>>

-----------------------------------------------------------------------------
(* Excel/CSV Parser Module *)

\* Column mapping: Excel Header -> XML Tag Path, in the order of the object
COLUMN_MAP ==
    <<
       [header |-> "Ref No", path |-> <<"refNo">>],
       [header |-> "Date Signed", path |-> <<"instrumentDate">>],
       [header |-> "Date Received", path |-> <<"instrumentDateReceive">>],
       [header |-> "Principal (-1) / Sub (0)", path |-> <<"principal">>],
       [header |-> "Subsidiary Ref", path |-> <<"subsidiary">>],
       [header |-> "Instrument Type Code", path |-> <<"typeOfInstrument">>],
       [header |-> "Other Instrument (Desc)", path |-> <<"typeOfInstrumentOthers">>],
       [header |-> "Transferor Type", path |-> <<"transferor", "type">>],
       [header |-> "Transferor Name", path |-> <<"transferor", "name">>],
       [header |-> "Transferor Nationality", path |-> <<"transferor", "nationality">>],
       [header |-> "Transferor IC", path |-> <<"transferor", "icNo">>],
       [header |-> "Transferor Passport", path |-> <<"transferor", "pasportNo">>],
       [header |-> "Transferor Passport Country", path |-> <<"transferor", "pasportCountry">>],
       [header |-> "Transferor ROC", path |-> <<"transferor", "rocNo">>],
       [header |-> "Transferor Bus. Type", path |-> <<"transferor", "busType">>],
       [header |-> "Transferor Income Tax", path |-> <<"transferor", "incomeTaxNo">>],
       [header |-> "Transferor Branch Code", path |-> <<"transferor", "incomeTaxBranch">>],
       [header |-> "Transferor Address 1", path |-> <<"transferor", "street1">>],
       [header |-> "Transferor Address 2", path |-> <<"transferor", "street2">>],
       [header |-> "Transferor Address 3", path |-> <<"transferor", "street3">>],
       [header |-> "Transferor Postcode", path |-> <<"transferor", "postcode">>],
       [header |-> "Transferor City", path |-> <<"transferor", "city">>],
       [header |-> "Transferor State Code", path |-> <<"transferor", "state">>],
       [header |-> "Transferor Country Code", path |-> <<"transferor", "country">>],
       [header |-> "Transferor Phone", path |-> <<"transferor", "telNo">>],
       [header |-> "Transferor Email", path |-> <<"transferor", "email">>],
       [header |-> "Transferee Type", path |-> <<"transferee", "type">>],
       [header |-> "Transferee Name", path |-> <<"transferee", "name">>],
       [header |-> "Transferee Nationality", path |-> <<"transferee", "nationality">>],
       [header |-> "Transferee IC", path |-> <<"transferee", "icNo">>],
       [header |-> "Transferee Passport", path |-> <<"transferee", "pasportNo">>],
       [header |-> "Transferee Passport Country", path |-> <<"transferee", "pasportCountry">>],
       [header |-> "Transferee ROC", path |-> <<"transferee", "rocNo">>],
       [header |-> "Transferee Bus. Type", path |-> <<"transferee", "busType">>],
       [header |-> "Transferee Income Tax", path |-> <<"transferee", "incomeTaxNo">>],
       [header |-> "Transferee Branch Code", path |-> <<"transferee", "incomeTaxBranch">>],
       [header |-> "Transferee Address 1", path |-> <<"transferee", "street1">>],
       [header |-> "Transferee Address 2", path |-> <<"transferee", "street2">>],
       [header |-> "Transferee Address 3", path |-> <<"transferee", "street3">>],
       [header |-> "Transferee Postcode", path |-> <<"transferee", "postcode">>],
       [header |-> "Transferee City", path |-> <<"transferee", "city">>],
       [header |-> "Transferee State Code", path |-> <<"transferee", "state">>],
       [header |-> "Transferee Country Code", path |-> <<"transferee", "country">>],
       [header |-> "Transferee Phone", path |-> <<"transferee", "telNo">>],
       [header |-> "Transferee Email", path |-> <<"transferee", "email">>],
       [header |-> "Loan/Consideration Amt", path |-> <<"consideration">>],
       [header |-> "Duration Fixed?", path |-> <<"duration">>],
       [header |-> "Duration Desc", path |-> <<"durationDesc">>],
       [header |-> "Collateral: Land?", path |-> <<"colLand">>],
       [header |-> "Collateral: Land Desc", path |-> <<"colLandDesc">>],
       [header |-> "Collateral: Share?", path |-> <<"colShare">>],
       [header |-> "Collateral: Deposit?", path |-> <<"colDeposit">>],
       [header |-> "Collateral: Other?", path |-> <<"colOthers">>],
       [header |-> "Collateral: Other Desc", path |-> <<"colOthersDesc">>],
       [header |-> "No of Copies", path |-> <<"noOfCopy">>],
       [header |-> "Exemption Code", path |-> <<"exemption">>],
       [header |-> "Exemption Others", path |-> <<"exemptionOthers">>],
       [header |-> "Remission Code", path |-> <<"remession">>],
       [header |-> "Remission Others", path |-> <<"remessionOthers">>],
       [header |-> "Filename Only", path |-> <<"attachment">>],
       [header |-> "Attachment", path |-> <<"attachment">>],
       [header |-> "Attachment Filename", path |-> <<"attachment">>]
    >>

\* excelHeader.includes('Date'): the two headers of COLUMN_MAP that do
IsDateHeader(header) == header \in {"Date Signed", "Date Received"}

DigitValue(c) ==
    CASE c = "0" -> 0 [] c = "1" -> 1 [] c = "2" -> 2 [] c = "3" -> 3
      [] c = "4" -> 4 [] c = "5" -> 5 [] c = "6" -> 6 [] c = "7" -> 7
      [] c = "8" -> 8 [] c = "9" -> 9

RECURSIVE DigitsValue(_)
DigitsValue(s) ==
    IF s = << >> THEN 0
    ELSE 10 * DigitsValue(SubSeq(s, 1, Len(s) - 1)) + DigitValue(s[Len(s)])

AllDigits(s) == \A n \in 1..Len(s) : IsDigit(s[n])

InvalidDate == [valid |-> FALSE, day |-> 0, month |-> 0, year |-> 0]

\* new Date(s) for a string s, read in a time zone at or east of UTC: the
\* ISO form YYYY-MM-DD and the form M/D/YYYY (month first) give a date,
\* any other text of the model's alphabet gives an Invalid Date.  Days
\* above 28, whose treatment differs between engines, are left invalid.
JsDateParse(s) ==
    IF /\ Len(s) = 10 /\ s[5] = "-" /\ s[8] = "-"
       /\ AllDigits(SubSeq(s, 1, 4)) /\ AllDigits(SubSeq(s, 6, 7))
       /\ AllDigits(SubSeq(s, 9, 10))
       /\ DigitsValue(SubSeq(s, 6, 7)) \in 1..12
       /\ DigitsValue(SubSeq(s, 9, 10)) \in 1..28
    THEN [valid |-> TRUE, day |-> DigitsValue(SubSeq(s, 9, 10)),
          month |-> DigitsValue(SubSeq(s, 6, 7)),
          year |-> DigitsValue(SubSeq(s, 1, 4))]
    ELSE IF /\ Len(s) = 8 /\ s[2] = "/" /\ s[4] = "/"
            /\ IsDigit(s[1]) /\ IsDigit(s[3]) /\ AllDigits(SubSeq(s, 5, 8))
            /\ DigitValue(s[1]) >= 1 /\ DigitValue(s[3]) >= 1
    THEN [valid |-> TRUE, day |-> DigitValue(s[3]), month |-> DigitValue(s[1]),
          year |-> DigitsValue(SubSeq(s, 5, 8))]
    ELSE InvalidDate

\* String(n).padStart(2, '0')
PadStart2(n) == IF n < 10 THEN <<"0">> \o NatToStr(n) ELSE NatToStr(n)

formatDate(value) ==
    IF ~Truthy(value) THEN EmptyStr
    ELSE IF value.k = "str" /\ DATE_REGEX_test(value.s) THEN value
    ELSE LET date == JsDateParse(JsString(value))
         IN IF ~date.valid THEN value
            ELSE Str(PadStart2(date.day) \o <<"/">> \o PadStart2(date.month)
                     \o <<"/">> \o NatToStr(date.year))

\* as SetPath, a flat property keeping the value it already has
SetPath_KeepsFirst(mapped, path, value) ==
    IF Len(path) = 2
    THEN With(mapped, path[1], Obj(With(mapped[path[1]].f, path[2], value)))
    ELSE IF path[1] \in DOMAIN mapped THEN mapped
    ELSE With(mapped, path[1], value)

\* Set nested or flat property
SetPath(mapped, path, value) ==
    IF Len(path) = 2
    THEN With(mapped, path[1], Obj(With(mapped[path[1]].f, path[2], value)))
    ELSE With(mapped, path[1], value)

\* The entries of COLUMN_MAP the if of the loop lets through: those whose
\* header the row has as a property, in the order of COLUMN_MAP
OwnEntries(row) == SelectSeq(COLUMN_MAP, LAMBDA entry : entry.header \in DOMAIN row)

\* The loop over Object.entries(COLUMN_MAP), from the n-th of the entries
\* whose body runs
RECURSIVE MapEntries(_, _, _, _)
MapEntries(row, entries, n, mapped) ==
    IF n > Len(entries) THEN mapped
    ELSE LET excelHeader == entries[n].header
             xmlPath == entries[n].path
             value == IF IsDateHeader(excelHeader) /\ Truthy(row[excelHeader])
                      THEN formatDate(row[excelHeader])
                      ELSE row[excelHeader]
         IN MapEntries(row, entries, n + 1, SetPath(mapped, xmlPath, value))

\* The callback of jsonData.map; index is 0-based
MapRow(row, index) ==
    MapEntries(row, OwnEntries(row), 1,
        [ _rowNumber |-> Num(index + 2),
          _originalRow |-> Obj(row),
          transferor |-> Obj(<< >>),
          transferee |-> Obj(<< >>) ])

\* The mappedData of parseFile's result, from the rows of the sheet
parseFile(rows) == [n \in 1..Len(rows) |-> MapRow(rows[n], n - 1)]

-----------------------------------------------------------------------------
(* The map-and-validate pipeline *)

\* row.hasOwnProperty(excelHeader) can be called: the property is the
\* method of Object.prototype unless the row has a cell under the header
\* 'hasOwnProperty', whose text is then what the call finds (a TypeError).
HasOwnPropertyIsMethod(row) == "hasOwnProperty" \notin DOMAIN row

\* handleExcelUpload: state.mappedData = parsed.mappedData, unless
\* parseFile throws, which the handler catches, leaving the state as it was
ParseFile ==
    /\ stage = "raw"
    /\ IF \A n \in 1..Len(jsonData) : HasOwnPropertyIsMethod(jsonData[n])
       THEN /\ mappedData' = parseFile(jsonData)
            /\ stage' = "mapped"
       ELSE /\ mappedData' = mappedData
            /\ stage' = "failed"
    /\ UNCHANGED <<jsonData, attachmentFiles, validationResults>>
    /\ UNCHANGED <<genVars, appVars, dbVars>>

\* validateAll of the strict variant on the mapped data and the store
ValidateStrict ==
    /\ stage = "mapped"
    /\ validationResults' = validateAllStrict(mappedData, attachmentFiles)
    /\ stage' = "validated"
    /\ UNCHANGED <<jsonData, attachmentFiles, mappedData>>
    /\ UNCHANGED <<genVars, appVars, dbVars>>

\* validateAll of the lenient variant on the mapped data and the store
ValidateLenient ==
    /\ stage = "mapped"
    /\ validationResults' = validateAll(mappedData, attachmentFiles)
    /\ stage' = "validated"
    /\ UNCHANGED <<jsonData, attachmentFiles, mappedData>>
    /\ UNCHANGED <<genVars, appVars, dbVars>>

-----------------------------------------------------------------------------
(* Main Application.  A handler runs to its first await and from one await *)
(* to the next without interruption; an action is one such stretch.  The   *)
(* buttons of a step can be clicked while that step is the one shown.      *)

\* new Map()
EmptyMap == [k |-> "map", keys |-> {}]

\* Array.prototype.includes
Includes(list, x) == \E n \in 1..Len(list) : list[n] = x

\* The forEach of extractRequiredAttachments from the n-th row on.  The
\* cells of a sheet are text, so a truthy attachment has a trim method.
RECURSIVE RequiredFrom(_, _, _)
RequiredFrom(data, n, acc) ==
    IF n > Len(data) THEN acc
    ELSE LET attachment == Get(data[n], "attachment")
         IN IF Truthy(attachment) /\ Truthy(Str(Trim(attachment.s)))
            THEN LET filename == Trim(attachment.s)
                 IN RequiredFrom(data, n + 1,
                        IF Includes(acc, filename) THEN acc ELSE Append(acc, filename))
            ELSE RequiredFrom(data, n + 1, acc)

\* state.requiredAttachments as extractRequiredAttachments leaves it
extractRequiredAttachments(data) == RequiredFrom(data, 1, << >>)

\* state.missingCount as updateAttachmentStatus leaves it
updateAttachmentStatus(required, files) ==
    Cardinality({n \in 1..Len(required) : ~StoreHas(files, required[n])})

\* as updateProceedButton, looking at the data only
updateProceedButton_DataOnly(isNull, data, required, missing) ==
    ~(~isNull /\ Len(data) > 0)

\* elements.proceedStep2.disabled as updateProceedButton leaves it
updateProceedButton(isNull, data, required, missing) ==
    LET hasData == ~isNull /\ Len(data) > 0
        attachmentsOk == Len(required) = 0 \/ missing = 0
    IN ~(hasData /\ attachmentsOk)

\* The resolver startGeneration builds over the store: the stored data,
\* or '' for a name that is not a key
StoreResolver(files, base64Len) ==
    [callable |-> TRUE,
     out |-> [name \in files.keys |-> [k |-> "data", len |-> base64Len]]]

\* The for loop of generateXml from the n-th record on, and the final batch
RECURSIVE GenerateFrom(_, _, _, _, _)
GenerateFrom(data, resolver, n, done, batch) ==
    IF n > Len(data)
    THEN IF Len(batch.instruments) > 0
         THEN Append(done, finalizeBatch(batch, Len(done) + 1))
         ELSE done
    ELSE LET instrumentXml == generateInstrumentXml(data[n], resolver)
             instrumentSize == InstrumentSize(instrumentXml)
             close == MustClose(batch, instrumentSize)
             done1 == IF close
                      THEN Append(done, finalizeBatch(batch, Len(done) + 1))
                      ELSE done
             batch1 == IF close THEN EmptyBatch ELSE batch
         IN GenerateFrom(data, resolver, n + 1, done1,
                [ instruments |-> Append(batch1.instruments, instrumentXml),
                  size |-> batch1.size + instrumentSize,
                  recordCount |-> batch1.recordCount + 1 ])

\* The batches generateXml returns
generateXml(data, resolver) == GenerateFrom(data, resolver, 1, << >>, EmptyBatch)

\* state.mappedData is null: stage is "raw" until an upload has been mapped
MappedDataIsNull == stage # "mapped"

appRest == <<jsonData, genVars, dbVars>>

\* handleExcelUpload up to the fetch of /api/upload/excel; the model has
\* one upload in flight at a time
SelectExcel(sheet) ==
    /\ currentStep = 1
    /\ pendingExcel = {}
    /\ pendingExcel' = {sheet}
    /\ UNCHANGED <<mappedData, stage, attachmentFiles, validationResults, currentStep,
                   requiredAttachments, missingCount, generatedFiles,
                   proceedStep2Disabled, proceedStep4Disabled,
                   startGenerationDisabled, validatorVariant,
                   pendingAttachments, lastValidated>>
    /\ UNCHANGED appRest

\* handleExcelUpload from the answer of the server on.  With a parsed
\* sheet the state takes the mapped data, the required names are
\* extracted, the store is emptied and the list and the button are brought
\* up to date.  A failed fetch, an error answer and parseFile throwing
\* leave the state as it was.
ExcelUploadComplete(sheet) ==
    /\ sheet \in pendingExcel
    /\ pendingExcel' = pendingExcel \ {sheet}
    /\ \/ /\ \A n \in 1..Len(sheet) : HasOwnPropertyIsMethod(sheet[n])
          /\ LET data == parseFile(sheet)
                 required == extractRequiredAttachments(data)
                 missing == updateAttachmentStatus(required, EmptyMap)
             IN /\ mappedData' = data
                /\ stage' = "mapped"
                /\ requiredAttachments' = required
                /\ attachmentFiles' = EmptyMap
                /\ missingCount' = missing
                /\ proceedStep2Disabled' =
                      updateProceedButton(FALSE, data, required, missing)
       \/ UNCHANGED <<mappedData, stage, requiredAttachments, attachmentFiles,
                      missingCount, proceedStep2Disabled>>
    /\ UNCHANGED <<validationResults, currentStep, generatedFiles,
                   proceedStep4Disabled, startGenerationDisabled,
                   validatorVariant, pendingAttachments, lastValidated>>
    /\ UNCHANGED appRest

\* handleAttachmentUpload up to the first readFileAsBase64; the section
\* with the file input is shown from an Excel upload to the next resetApp
SelectAttachments(names) ==
    /\ currentStep = 1
    /\ ~MappedDataIsNull
    /\ pendingAttachments = << >>
    /\ Len(names) > 0
    /\ pendingAttachments' = names
    /\ UNCHANGED <<mappedData, stage, attachmentFiles, validationResults, currentStep,
                   requiredAttachments, missingCount, generatedFiles,
                   proceedStep2Disabled, proceedStep4Disabled,
                   startGenerationDisabled, validatorVariant, pendingExcel,
                   lastValidated>>
    /\ UNCHANGED appRest

\* handleAttachmentUpload from a readFileAsBase64 on: the file is set in
\* the store, and after the last one the list, the counts and the button
\* are brought up to date; when the reader fails the handler ends there
AttachmentFileRead ==
    /\ pendingAttachments # << >>
    /\ \/ LET files == [k |-> "map",
                        keys |-> attachmentFiles.keys \cup {Head(pendingAttachments)}]
              missing == updateAttachmentStatus(requiredAttachments, files)
          IN /\ attachmentFiles' = files
             /\ pendingAttachments' = Tail(pendingAttachments)
             /\ IF Tail(pendingAttachments) = << >>
                THEN /\ missingCount' = missing
                     /\ proceedStep2Disabled' =
                           updateProceedButton(MappedDataIsNull, mappedData,
                                               requiredAttachments, missing)
                ELSE UNCHANGED <<missingCount, proceedStep2Disabled>>
       \/ /\ pendingAttachments' = << >>
          /\ UNCHANGED <<attachmentFiles, missingCount, proceedStep2Disabled>>
    /\ UNCHANGED <<mappedData, stage, validationResults, currentStep,
                   requiredAttachments, generatedFiles, proceedStep4Disabled,
                   startGenerationDisabled, validatorVariant, pendingExcel,
                   lastValidated>>
    /\ UNCHANGED appRest

\* proceedStep2 and backStep3's counterpart backStep1, proceedStep3's
\* counterpart backStep2: goToStep(1) and goToStep(2)
GoToStep12(step) ==
    /\ \/ currentStep = 1 /\ step = 2 /\ ~proceedStep2Disabled
       \/ currentStep = 2 /\ step = 1
       \/ currentStep = 3 /\ step = 2
    /\ currentStep' = step
    /\ UNCHANGED <<mappedData, stage, attachmentFiles, validationResults,
                   requiredAttachments, missingCount, generatedFiles,
                   proceedStep2Disabled, proceedStep4Disabled,
                   startGenerationDisabled, validatorVariant, pendingExcel,
                   pendingAttachments, lastValidated>>
    /\ UNCHANGED appRest

\* proceedStep3 and backStep3: goToStep(3), with resetValidation
GoToStep3 ==
    /\ currentStep = 2 \/ currentStep = 4
    /\ currentStep' = 3
    /\ validationResults' = Null
    /\ lastValidated' = Null
    /\ proceedStep4Disabled' = TRUE
    /\ UNCHANGED <<mappedData, stage, attachmentFiles, requiredAttachments,
                   missingCount, generatedFiles, proceedStep2Disabled,
                   startGenerationDisabled, validatorVariant, pendingExcel,
                   pendingAttachments>>
    /\ UNCHANGED appRest

\* runValidation; validateAll throws on data that is null, which the
\* handler catches
RunValidation ==
    /\ currentStep = 3
    /\ IF MappedDataIsNull
       THEN UNCHANGED <<validationResults, proceedStep4Disabled, lastValidated>>
       ELSE LET results == Report(validatorVariant, mappedData, attachmentFiles)
            IN /\ validationResults' = results
               /\ proceedStep4Disabled' =
                     IF results.errorCount = 0 THEN FALSE ELSE proceedStep4Disabled
               /\ lastValidated' = [data |-> mappedData, files |-> attachmentFiles]
    /\ UNCHANGED <<mappedData, stage, attachmentFiles, currentStep,
                   requiredAttachments, missingCount, generatedFiles,
                   proceedStep2Disabled, startGenerationDisabled,
                   validatorVariant, pendingExcel, pendingAttachments>>
    /\ UNCHANGED appRest

\* proceedStep4: goToStep(4), with resetGeneration
GoToStep4 ==
    /\ currentStep = 3
    /\ ~proceedStep4Disabled
    /\ currentStep' = 4
    /\ startGenerationDisabled' = FALSE
    /\ UNCHANGED <<mappedData, stage, attachmentFiles, validationResults,
                   requiredAttachments, missingCount, generatedFiles,
                   proceedStep2Disabled, proceedStep4Disabled,
                   validatorVariant, pendingExcel, pendingAttachments,
                   lastValidated>>
    /\ UNCHANGED appRest

\* startGeneration; generateXml throws on data that is null, which the
\* handler catches, calling resetGeneration
StartGeneration(base64Len) ==
    /\ currentStep = 4
    /\ ~startGenerationDisabled
    /\ IF MappedDataIsNull
       THEN UNCHANGED <<startGenerationDisabled, generatedFiles>>
       ELSE /\ startGenerationDisabled' = TRUE
            /\ generatedFiles' =
                  generateXml(mappedData, StoreResolver(attachmentFiles, base64Len))
    /\ UNCHANGED <<mappedData, stage, attachmentFiles, validationResults, currentStep,
                   requiredAttachments, missingCount, proceedStep2Disabled,
                   proceedStep4Disabled, validatorVariant, pendingExcel,
                   pendingAttachments, lastValidated>>
    /\ UNCHANGED appRest

\* startNew, shown once a generation has completed: resetApp
ResetApp ==
    /\ currentStep = 4
    /\ startGenerationDisabled
    /\ currentStep' = 1
    /\ mappedData' = Null
    /\ stage' = "raw"
    /\ validationResults' = Null
    /\ generatedFiles' = << >>
    /\ requiredAttachments' = << >>
    /\ attachmentFiles' = EmptyMap
    /\ missingCount' = 0
    /\ proceedStep2Disabled' = TRUE
    /\ lastValidated' = Null
    /\ UNCHANGED <<proceedStep4Disabled, startGenerationDisabled,
                   validatorVariant, pendingExcel, pendingAttachments>>
    /\ UNCHANGED appRest

-----------------------------------------------------------------------------
(* Server: the projects and generations of db, and the routes that change *)
(* them.  A project is kept by its id, a generation by its id and its      *)
(* project_id; names, counts and dates play no part in the routes.         *)

dbRest == <<mappedData, genVars, valVars, appVars>>

\* app.post('/api/projects')
CreateProject(maxId) ==
    /\ nextIds.projects <= maxId
    /\ LET id == nextIds.projects
       IN /\ nextIds' = [nextIds EXCEPT !.projects = @ + 1]
          /\ projects' = Append(projects, [id |-> id])
    /\ UNCHANGED generations
    /\ UNCHANGED dbRest

\* app.delete('/api/projects/:id')
DeleteProject(id) ==
    /\ projects' = SelectSeq(projects, LAMBDA p : p.id # id)
    /\ generations' = SelectSeq(generations, LAMBDA g : g.project_id # id)
    /\ UNCHANGED nextIds
    /\ UNCHANGED dbRest

\* app.post('/api/generations')
SaveGeneration(projectId, maxId) ==
    /\ nextIds.generations <= maxId
    /\ LET id == nextIds.generations
       IN /\ nextIds' = [nextIds EXCEPT !.generations = @ + 1]
          /\ generations' = Append(generations, [id |-> id, project_id |-> projectId])
    /\ UNCHANGED projects
    /\ UNCHANGED dbRest

-----------------------------------------------------------------------------
(* The parts of the state a specification leaves aside *)

\* The app as it is when loaded (as resetApp leaves it); no upload is in
\* flight, nothing has been validated or serialized.
AppIdle ==
    /\ currentStep = 1
    /\ requiredAttachments = << >>
    /\ missingCount = 0
    /\ generatedFiles = << >>
    /\ proceedStep2Disabled = TRUE
    /\ proceedStep4Disabled = TRUE
    /\ startGenerationDisabled = FALSE
    /\ validatorVariant = "lenient"
    /\ pendingExcel = {}
    /\ pendingAttachments = << >>
    /\ lastValidated = Null

\* The server's store as it is without a database file
DbIdle ==
    /\ projects = << >>
    /\ generations = << >>
    /\ nextIds = [projects |-> 1, generations |-> 1]

-----------------------------------------------------------------------------
(* Inputs of the serializer *)

MaxRecords == 3

\* A record with every field of either mandatory list filled in.
PartyBase ==
    [ type |-> Str(<<"1">>), name |-> Str(<<"n">>), rocNo |-> Str(<<"7">>),
      busType |-> Str(<<"1">>), street1 |-> Str(<<"s">>),
      street2 |-> Str(<<"t">>), postcode |-> Str(<<"5">>),
      city |-> Str(<<"c">>), state |-> Str(<<"1">>), country |-> Str(<<"1">>),
      telNo |-> Str(<<"0">>) ]

RecordBase ==
    [ _rowNumber |-> Num(2),
      refNo |-> Str(<<"r">>),
      instrumentDate |-> Str(<<"0", "1", "/", "0", "2", "/", "2", "0", "2", "4">>),
      instrumentDateReceive |-> Str(<<"0", "3", "/", "0", "2", "/", "2", "0", "2", "4">>),
      principal |-> Str(<<"-", "1">>),
      typeOfInstrument |-> Str(<<"1">>),
      typeOfInstrumentOthers |-> Str(<<"a", "&", "b">>),
      consideration |-> Str(<<"9">>),
      noOfCopy |-> Str(<<"1">>),
      transferor |-> Obj(PartyBase),
      transferee |-> Obj(PartyBase) ]

\* A sparse record, as the mapper builds it from a row with few columns.
SparseRecord ==
    [ _rowNumber |-> Num(2),
      refNo |-> Str(<<"r">>),
      typeOfInstrumentOthers |-> Str(<<"a", "&", "b">>),
      transferor |-> Obj([name |-> Str(<<"n">>)]),
      transferee |-> Obj(<< >>) ]


NameA == <<"a">>
NameB == <<"b">>
NameC == <<"c">>

\* The size of the fragment of a base record whose attachment has a
\* one-character name and an empty payload.
SmallFragment ==
    InstrumentSize(generateInstrumentXml(With(SparseRecord, "attachment", Str(NameA)),
                                         [callable |-> FALSE, out |-> << >>]))

\* The payload room of a batch of two such records.
PairRoom == MAX_BATCH_SIZE - (XML_HEADER_BYTES + XML_FOOTER_BYTES) - 2 * SmallFragment

\* a + b fill a batch exactly, a + a leave one byte, b + b exceed by one
\* byte; c alone exceeds the maximum.
LenA == PairRoom \div 2
LenB == PairRoom - LenA
LenC == MAX_BATCH_SIZE

Resolvers ==
    { [callable |-> TRUE,
       out |-> (NameA :> [k |-> "data", len |-> LenA]
                @@ NameB :> [k |-> "data", len |-> LenB]
                @@ NameC :> [k |-> "data", len |-> LenC])],
      [callable |-> TRUE,
       out |-> (NameA :> [k |-> "data", len |-> LenA]
                @@ NameB :> [k |-> "throw"]
                @@ NameC :> [k |-> "empty"])],
      [callable |-> FALSE, out |-> << >>] }

GenRecords ==
    { SparseRecord,
      With(SparseRecord, "attachment", Str(NameA)),
      With(SparseRecord, "attachment", Str(NameB)),
      With(SparseRecord, "attachment", Str(NameC)),
      With(With(SparseRecord, "attachment", Str(<<" ">> \o NameB)), "refNo", Str(<<EAcute>>)) }

SeqsUpTo(S, n) == UNION { [1..m -> S] : m \in 0..n }

\* The map-and-validate pipeline is not running.
ValIdle ==
    /\ jsonData = << >>
    /\ attachmentFiles = Undef
    /\ validationResults = Null
    /\ stage = "idle"

GenInit ==
    /\ ValIdle
    /\ AppIdle
    /\ DbIdle
    /\ mappedData \in SeqsUpTo(GenRecords, MaxRecords)
    /\ getAttachmentBase64 \in Resolvers
    /\ hasProgress \in BOOLEAN
    /\ i = 0
    /\ batches = << >>
    /\ currentBatch = EmptyBatch
    /\ progress = << >>
    /\ pc = "loop"

GenNext == GenerateStep \/ GenerateFinish

GenSpec == GenInit /\ [][GenNext]_vars

-----------------------------------------------------------------------------
(* Inputs of the serializer: field values with reserved characters *)

MaxTokens == 3

\* The pieces field values are put together from: the five reserved
\* characters, plain text, and the tails of entity names, so that values
\* such as '&amp;' and '&amp;lt;' are among them.
Tokens ==
    { <<"&">>, <<"<">>, <<">">>, <<"\"">>, <<"'">>, <<"a">>, <<";">>,
      <<"a", "m", "p", ";">>, <<"l", "t", ";">> }

RECURSIVE Flatten(_)
Flatten(pieces) ==
    IF pieces = << >> THEN << >> ELSE Head(pieces) \o Flatten(Tail(pieces))

EscStrings == { Flatten(pieces) : pieces \in SeqsUpTo(Tokens, MaxTokens) }

\* One record whose refNo, transferor name and attachment name are the
\* string; no attachment is stored.
EscInit ==
    /\ ValIdle
    /\ AppIdle
    /\ DbIdle
    /\ mappedData \in
          { << [ _rowNumber |-> Num(2),
                 refNo |-> Str(str),
                 attachment |-> Str(str),
                 transferor |-> Obj([name |-> Str(str)]),
                 transferee |-> Obj(<< >>) ] >> : str \in EscStrings }
    /\ getAttachmentBase64 = [callable |-> TRUE, out |-> << >>]
    /\ hasProgress = FALSE
    /\ i = 0
    /\ batches = << >>
    /\ currentBatch = EmptyBatch
    /\ progress = << >>
    /\ pc = "loop"

EscSpec == EscInit /\ [][GenNext]_vars

-----------------------------------------------------------------------------
(* Inputs of the serializer: sparse records *)

MaxSparse == 2

\* Records with fields and sub-records absent, undefined or null, with
\* numbers for values, and one whose reference is the text 'null'.
SparseRecords ==
    { SparseRecord,
      [ _rowNumber |-> Num(2) ],
      With(With(With(RecordBase, "transferor", Null), "refNo", Null),
           "consideration", Undef),
      With(With(With(SparseRecord, "transferee", Undef), "subsidiary", Null),
           "refNo", Str(<<"n", "u", "l", "l">>)),
      With(With(With(SparseRecord, "noOfCopy", Num(0)), "principal", Num(5)),
           "transferee", Obj([type |-> Num(0), name |-> Null])) }

SparseInit ==
    /\ ValIdle
    /\ AppIdle
    /\ DbIdle
    /\ mappedData \in SeqsUpTo(SparseRecords, MaxSparse)
    /\ getAttachmentBase64 \in { [callable |-> TRUE, out |-> << >>],
                                  [callable |-> FALSE, out |-> << >>] }
    /\ hasProgress \in BOOLEAN
    /\ i = 0
    /\ batches = << >>
    /\ currentBatch = EmptyBatch
    /\ progress = << >>
    /\ pc = "loop"

SparseSpec == SparseInit /\ [][GenNext]_vars

-----------------------------------------------------------------------------
(* Inputs of the serializer: many small records *)

BulkRecords == 51

\* Runs of BulkRecords - 1 and of BulkRecords records without attachments
BulkInit ==
    /\ ValIdle
    /\ AppIdle
    /\ DbIdle
    /\ mappedData \in { [n \in 1..m |-> With(SparseRecord, "_rowNumber", Num(n + 1))] :
                           m \in (BulkRecords - 1)..BulkRecords }
    /\ getAttachmentBase64 = [callable |-> TRUE, out |-> << >>]
    /\ hasProgress \in BOOLEAN
    /\ i = 0
    /\ batches = << >>
    /\ currentBatch = EmptyBatch
    /\ progress = << >>
    /\ pc = "loop"

BulkSpec == BulkInit /\ [][GenNext]_vars

-----------------------------------------------------------------------------
(* Inputs of the map-and-validate pipeline *)

MaxValRecords == 2
MaxRows == 2

\* delete obj[key]
Without(record, f) == [x \in DOMAIN record \ {f} |-> record[x]]

WithParty(record, party, f, v) ==
    With(record, party, Obj(With(record[party].f, f, v)))

WithoutParty(record, party, f) ==
    With(record, party, Obj(Without(record[party].f, f)))

\* An individual with an IC number and a nationality
Individual(type) ==
    With(With(With(Without(Without(PartyBase, "rocNo"), "busType"),
                   "type", type), "icNo", Str(<<"8">>)), "nationality", Str(<<"1">>))

\* Records given to validateAll directly: RecordBase, which neither variant
\* faults beyond the missing attachment, and one departure from it each.
ValRecords ==
    { RecordBase,
      \* companies without a ROC number: absent, and empty with a numeric type
      WithoutParty(RecordBase, "transferor", "rocNo"),
      WithParty(WithParty(RecordBase, "transferor", "type", Num(1)),
                "transferor", "rocNo", EmptyStr),
      WithoutParty(RecordBase, "transferee", "rocNo"),
      \* individuals: with an IC, without any identity, with a passport
      \* under either spelling of the key
      With(RecordBase, "transferor", Obj(Individual(Str(<<"0">>)))),
      With(RecordBase, "transferor", Obj(Without(Individual(Str(<<"0">>)), "icNo"))),
      With(RecordBase, "transferee", Obj(Without(Individual(Num(0)), "icNo"))),
      With(RecordBase, "transferor",
           Obj(With(With(Without(Individual(Num(0)), "icNo"),
                         "passportNo", Str(<<"p">>)), "passportCountry", Str(<<"c">>)))),
      With(RecordBase, "transferor",
           Obj(With(Without(Individual(Str(<<"0">>)), "icNo"),
                    "pasportNo", Str(<<"p">>)))),
      \* a party of an unrecognized type, and no party at all
      WithoutParty(WithParty(RecordBase, "transferor", "type", Str(<<"2">>)),
                   "transferor", "rocNo"),
      Without(RecordBase, "transferor"),
      \* attachments: stored, not stored, stored under the trimmed name
      With(RecordBase, "attachment", Str(NameA)),
      With(RecordBase, "attachment", Str(NameC)),
      With(RecordBase, "attachment", Str(<<" ">> \o NameB \o <<" ">>)),
      \* a name differing from a stored one by case only, and an empty name
      With(RecordBase, "attachment", Str(<<"A">>)),
      With(RecordBase, "attachment", EmptyStr),
      \* a missing mandatory field, a malformed date, a non-numeric amount
      With(RecordBase, "refNo", EmptyStr),
      Without(RecordBase, "consideration"),
      With(RecordBase, "noOfCopy", Null),
      Without(RecordBase, "transferee"),
      With(RecordBase, "instrumentDate", Str(<<"1", "/", "2", "/", "2", "0", "2", "4">>)),
      With(RecordBase, "consideration", Str(<<"x">>)),
      \* dates: of the shape without being a date, with text after and
      \* before the shape, absent, empty
      With(RecordBase, "instrumentDate",
           Str(<<"9", "9", "/", "9", "9", "/", "9", "9", "9", "9">>)),
      With(With(RecordBase, "instrumentDate",
                Str(<<"0", "1", "/", "0", "2", "/", "2", "0", "2", "4", "5">>)),
           "instrumentDateReceive",
           Str(<<"x", "0", "1", "/", "0", "2", "/", "2", "0", "2", "4">>)),
      Without(RecordBase, "instrumentDateReceive"),
      With(RecordBase, "instrumentDate", EmptyStr) }

\* mappedData of k records for validateAll, numbered as the mapper does
Numbered(records) ==
    [n \in 1..Len(records) |-> With(records[n], "_rowNumber", Num(n + 1))]

\* The attachment store: a Map with the keys a and b, or no Map at all
Stores == { [k |-> "map", keys |-> {NameA, NameB}], Undef }

\* A row of the sheet; sheet_to_json gives every row all the headers of
\* the sheet, with '' for an empty cell, and formatted text for the others.
RowBase ==
    [h \in {"Ref No", "Date Signed", "Transferor Type", "Transferor IC",
            "Transferor Passport", "Transferor Passport Country",
            "Transferor ROC", "Transferee Type", "Transferee IC",
            "Transferee Passport", "Transferee Passport Country",
            "Transferee ROC", "Attachment", "Remarks"} |->
        CASE h = "Ref No" -> Str(<<"r">>)
          [] h = "Date Signed" ->
                Str(<<"0", "1", "/", "0", "2", "/", "2", "0", "2", "4">>)
          [] h = "Transferor Type" -> Str(<<"0">>)
          [] h = "Transferor IC" -> Str(<<"8">>)
          [] h = "Transferee Type" -> Str(<<"1">>)
          [] h = "Transferee ROC" -> Str(<<"7">>)
          [] h = "Remarks" -> Str(<<"x">>)
          [] OTHER -> EmptyStr]

Cell(present, text) == IF present THEN Str(text) ELSE EmptyStr

Rows ==
    \* an individual transferor: IC, passport and passport country, each
    \* filled in or left empty
    { With(With(With(RowBase, "Transferor IC", Cell(ic, <<"8">>)),
                "Transferor Passport", Cell(pp, <<"p">>)),
           "Transferor Passport Country", Cell(pc2, <<"c">>)) :
        ic \in BOOLEAN, pp \in BOOLEAN, pc2 \in BOOLEAN }
    \cup
    \* a company transferor, with and without a ROC number
    { With(With(With(RowBase, "Transferor Type", Str(<<"1">>)),
                "Transferor IC", EmptyStr), "Transferor ROC", Cell(roc, <<"7">>)) :
        roc \in BOOLEAN }
    \cup
    \* an individual transferee with a passport only, and with no identity
    { With(With(With(RowBase, "Transferee Type", Str(<<"0">>)),
                "Transferee ROC", EmptyStr), "Transferee Passport", Cell(pp, <<"p">>)) :
        pp \in BOOLEAN }
    \cup
    \* a date in ISO form, an uninterpretable date, a named attachment
    { With(RowBase, "Date Signed",
           Str(<<"2", "0", "2", "4", "-", "0", "2", "-", "0", "1">>)),
      With(RowBase, "Date Signed", Str(<<"b", "a", "d">>)),
      With(RowBase, "Attachment", Str(NameA)) }
    \cup
    \* a date in ISO form of a year before 1000
    { With(RowBase, "Date Signed",
           Str(<<"0", "9", "9", "9", "-", "0", "1", "-", "0", "1">>)) }
    \cup
    \* a sheet with a column whose header is 'hasOwnProperty'
    { With(RowBase, "hasOwnProperty", Str(<<"x">>)) }

\* The serializer is not running.
GenIdle ==
    /\ getAttachmentBase64 = [callable |-> FALSE, out |-> << >>]
    /\ hasProgress = FALSE
    /\ i = 0
    /\ batches = << >>
    /\ currentBatch = EmptyBatch
    /\ progress = << >>
    /\ pc = "idle"

\* Either the rows of a sheet, still to be mapped, or records given to
\* validateAll as they are.
ValInit ==
    /\ GenIdle
    /\ AppIdle
    /\ DbIdle
    /\ attachmentFiles \in Stores
    /\ validationResults = Null
    /\ \/ /\ stage = "raw"
          /\ jsonData \in SeqsUpTo(Rows, MaxRows)
          /\ mappedData = Null
       \/ /\ stage = "mapped"
          /\ jsonData = << >>
          /\ mappedData \in { Numbered(rs) : rs \in SeqsUpTo(ValRecords, MaxValRecords) }

ValNext == ParseFile \/ ValidateStrict \/ ValidateLenient

ValSpec == ValInit /\ [][ValNext]_vars

-----------------------------------------------------------------------------
(* Inputs of the application *)

FileBase64Len == 4

\* A row of a sheet with a cell for every field the lenient variant
\* requires, and an empty attachment cell
AppRow ==
    [h \in {"Ref No", "Date Signed", "Date Received", "Principal (-1) / Sub (0)",
            "Instrument Type Code", "Transferor Type", "Transferor Name",
            "Transferee Type", "Transferee Name", "Loan/Consideration Amt",
            "No of Copies", "Attachment"} |->
        CASE h = "Ref No" -> Str(<<"r">>)
          [] h = "Date Signed" ->
                Str(<<"0", "1", "/", "0", "2", "/", "2", "0", "2", "4">>)
          [] h = "Date Received" ->
                Str(<<"0", "3", "/", "0", "2", "/", "2", "0", "2", "4">>)
          [] h = "Principal (-1) / Sub (0)" -> Str(<<"-", "1">>)
          [] h \in {"Transferor Name", "Transferee Name"} -> Str(<<"n">>)
          [] h = "Loan/Consideration Amt" -> Str(<<"9">>)
          [] h = "Attachment" -> EmptyStr
          [] OTHER -> Str(<<"1">>)]

\* The sheets a user uploads: one of two rows that name the file a, the
\* second with blanks around the name; one whose attachment cell holds a
\* blank; one without rows
AppSheets ==
    { <<With(AppRow, "Attachment", Str(NameA)),
        With(AppRow, "Attachment", Str(<<" ">> \o NameA \o <<" ">>))>>,
      <<With(AppRow, "Attachment", Str(<<" ">>))>>,
      << >> }

\* The files a user selects in one go
AppFileSelections == { <<NameA>> }

\* The app as loaded, the button of step 1 disabled as resetApp leaves it
AppInit ==
    /\ GenIdle
    /\ DbIdle
    /\ jsonData = << >>
    /\ stage = "raw"
    /\ mappedData = Null
    /\ attachmentFiles = EmptyMap
    /\ validationResults = Null
    /\ currentStep = 1
    /\ requiredAttachments = << >>
    /\ missingCount = 0
    /\ generatedFiles = << >>
    /\ proceedStep2Disabled = TRUE
    /\ proceedStep4Disabled = TRUE
    /\ startGenerationDisabled = FALSE
    /\ validatorVariant \in {"strict", "lenient"}
    /\ pendingExcel = {}
    /\ pendingAttachments = << >>
    /\ lastValidated = Null

AppNext ==
    \/ \E sheet \in AppSheets : SelectExcel(sheet)
    \/ \E sheet \in AppSheets : ExcelUploadComplete(sheet)
    \/ \E names \in AppFileSelections : SelectAttachments(names)
    \/ AttachmentFileRead
    \/ \E step \in {1, 2} : GoToStep12(step)
    \/ GoToStep3
    \/ RunValidation
    \/ GoToStep4
    \/ StartGeneration(FileBase64Len)
    \/ ResetApp

AppSpec == AppInit /\ [][AppNext]_vars

-----------------------------------------------------------------------------
(* Properties of the serializer *)

RECURSIVE SumRecordCount(_)
SumRecordCount(bs) ==
    IF bs = << >> THEN 0 ELSE Head(bs).recordCount + SumRecordCount(Tail(bs))

RECURSIVE ConcatContents(_)
ConcatContents(bs) ==
    IF bs = << >> THEN << >> ELSE Head(bs).content \o ConcatContents(Tail(bs))

\* The fragments of the input records, in input order
InputFragments ==
    [n \in 1..Len(mappedData) |->
        generateInstrumentXml(mappedData[n], getAttachmentBase64)]

\* The 1-based index of the emitted batch that holds the n-th record
BatchIndexOf(n) ==
    CHOOSE b \in 1..Len(batches) :
        /\ SumRecordCount(SubSeq(batches, 1, b - 1)) < n
        /\ n <= SumRecordCount(SubSeq(batches, 1, b))

EnvelopeBytes == XML_HEADER_BYTES + XML_FOOTER_BYTES

\* The n-th input record cannot fit any batch, even alone.
Oversized(n) == EnvelopeBytes + InstrumentSize(InputFragments[n]) > MAX_BATCH_SIZE

\* C1: the emitted batches partition the input: no batch is ever empty, an
\* empty input yields no batch, the recordCount values sum to the input
\* length, and the fragments read batch by batch are the input's fragments
\* in input order.
C1_BatchesPartitionInput ==
    /\ \A b \in 1..Len(batches) :
          /\ batches[b].recordCount >= 1
          /\ Len(batches[b].content) = batches[b].recordCount
    /\ pc = "done" =>
          /\ SumRecordCount(batches) = Len(mappedData)
          /\ ConcatContents(batches) = InputFragments
          /\ (mappedData = << >> => batches = << >>)

C1_Witness ==
    /\ pc = "done"
    /\ Len(mappedData) = MaxRecords
    /\ Len(batches) = 2
    /\ \E b \in 1..Len(batches) : batches[b].recordCount = 2

\* C2: a finalized batch with more than one record has a document of at
\* most MAX_BATCH_SIZE bytes.
C2_MultiRecordBatchWithinMax ==
    \A b \in 1..Len(batches) :
        batches[b].recordCount > 1 =>
            /\ batches[b].size <= MAX_BATCH_SIZE
            /\ ContentSize(batches[b].content) <= MAX_BATCH_SIZE

\* a two-record batch that fills the maximum exactly, next to a one-record
\* batch that exceeds it
C2_Witness ==
    /\ \E b \in 1..Len(batches) :
          batches[b].recordCount = 2 /\ batches[b].size = MAX_BATCH_SIZE
    /\ \E b \in 1..Len(batches) :
          batches[b].recordCount = 1 /\ batches[b].size > MAX_BATCH_SIZE

\* C3: an oversized record is emitted, whole, as the only record of its
\* batch, wherever it stands in the input.
C3_OversizedRecordAlone ==
    pc = "done" =>
        \A n \in 1..Len(mappedData) :
            Oversized(n) =>
                /\ \E b \in 1..Len(batches) :
                      /\ SumRecordCount(SubSeq(batches, 1, b - 1)) < n
                      /\ n <= SumRecordCount(SubSeq(batches, 1, b))
                /\ batches[BatchIndexOf(n)].recordCount = 1
                /\ batches[BatchIndexOf(n)].content = <<InputFragments[n]>>

\* an oversized record between two records that are not
C3_Witness ==
    /\ pc = "done"
    /\ Len(mappedData) = 3
    /\ ~Oversized(1) /\ Oversized(2) /\ ~Oversized(3)

\* C4: the k-th finalized batch is named Output.xml for k = 1 and
\* Output_Batch_k.xml otherwise, so the names of a run are pairwise distinct.
C4_BatchFilenames ==
    /\ \A b \in 1..Len(batches) :
          batches[b].filename =
              IF b = 1 THEN <<"Output", ".xml">>
              ELSE <<"Output", "_Batch_", DigitChar(b), ".xml">>
    /\ \A b, c \in 1..Len(batches) :
          b # c => batches[b].filename # batches[c].filename

\* the last name is that of the final partial batch closed after the loop
C4_Witness ==
    /\ pc = "done"
    /\ Len(batches) = 3
    /\ batches[3].filename = <<"Output", "_Batch_", "3", ".xml">>

\* C5: with a progress sink, one call per record appended so far, with
\* current = 1, 2, ... in order, the total, the rounded percentage (100 at
\* the end) and the index of the batch that finally holds the record.
C5_ProgressPerRecord ==
    hasProgress =>
        /\ Len(progress) = i
        /\ i = SumRecordCount(batches)
                 + (IF pc = "done" THEN 0 ELSE currentBatch.recordCount)
        /\ \A c \in 1..Len(progress) :
              /\ progress[c].current = c
              /\ progress[c].total = Len(mappedData)
              /\ 2 * progress[c].total * progress[c].percentage
                    <= 200 * c + progress[c].total
              /\ 200 * c + progress[c].total
                    < 2 * progress[c].total * (progress[c].percentage + 1)
        /\ pc = "done" =>
              /\ Len(progress) = Len(mappedData)
              /\ \A c \in 1..Len(progress) :
                    progress[c].currentBatch = BatchIndexOf(c)
              /\ (progress # << >> => progress[Len(progress)].percentage = 100)

\* three records in two batches: the percentages 33, 67 (rounded up), 100
C5_Witness ==
    /\ hasProgress
    /\ pc = "done"
    /\ Len(progress) = 3
    /\ progress[2].percentage = 67
    /\ progress[1].currentBatch = 1
    /\ progress[3].currentBatch = 2

-----------------------------------------------------------------------------
(* Properties of the validator *)

HasReport == validationResults.k = "report"

Range(seq) == { seq[n] : n \in 1..Len(seq) }

\* The issues of a report, of either severity
AllIssues == Range(validationResults.errors) \cup Range(validationResults.warnings)

\* The records of the validated data no error of the report refers to
RecordsWithoutError ==
    { n \in 1..Len(mappedData) :
        \A e \in Range(validationResults.errors) :
            e.rowNumber # mappedData[n]._rowNumber }

Parties == {"transferor", "transferee"}

\* C6: the counts of a report agree with its lists: validCount is the
\* number of records without an error, errorCount and warningCount are the
\* lengths of the lists, valid holds iff there is no error, and there is no
\* error iff every record is valid; warnings change none of this.
C6_ReportCounts ==
    HasReport =>
        /\ validationResults.validCount = Cardinality(RecordsWithoutError)
        /\ validationResults.errorCount = Len(validationResults.errors)
        /\ validationResults.warningCount = Len(validationResults.warnings)
        /\ validationResults.valid <=> (validationResults.errors = << >>)
        /\ (validationResults.errorCount = 0)
              <=> (validationResults.validCount = Len(mappedData))

\* one record with a warning only, one with an error
C6_Witness ==
    /\ HasReport
    /\ Len(mappedData) = 2
    /\ validationResults.validCount = 1
    /\ validationResults.errorCount >= 1
    /\ \E w \in Range(validationResults.warnings) :
          w.rowNumber = mappedData[1]._rowNumber /\ 1 \in RecordsWithoutError

\* C7: the errors of a report are MISSING_FIELD, INVALID_DATE or
\* MISSING_FILE issues, its warnings INVALID_NUMBER, MISSING_ATTACHMENT or
\* MISSING_ID issues, and runValidation renders each with the class of its
\* list.
C7_SeverityByErrorType ==
    HasReport =>
        /\ \A e \in Range(validationResults.errors) :
              /\ e.errorType \in {"MISSING_FIELD", "INVALID_DATE", "MISSING_FILE"}
              /\ IssueClass(e) = "error"
        /\ \A w \in Range(validationResults.warnings) :
              /\ w.errorType \in {"INVALID_NUMBER", "MISSING_ATTACHMENT", "MISSING_ID"}
              /\ IssueClass(w) = "warning"

\* a report with a non-numeric amount next to an error
C7_Witness ==
    /\ HasReport
    /\ \E w \in Range(validationResults.warnings) : w.errorType = "INVALID_NUMBER"
    /\ \E w \in Range(validationResults.warnings) : w.errorType = "MISSING_ATTACHMENT"
    /\ \E e \in Range(validationResults.errors) : e.errorType = "INVALID_DATE"

\* C8: a missing conditional identity (the ROC number of a company, the IC
\* number of an individual) is never among the errors of a report, so it
\* neither lowers validCount nor clears valid.
C8_ConditionalIdentityIsWarning ==
    HasReport =>
        \A e \in Range(validationResults.errors) :
            \A party \in Parties :
                e.fieldName # <<party, "rocNo">> /\ e.fieldName # <<party, "icNo">>

\* C9: a company party (type 1 or '1') whose rocNo is absent or empty gets
\* an issue on '<party>.rocNo' for its row, of type MISSING_FIELD or
\* MISSING_ID, whatever the other fields of the record are.
CompanyWithoutRoc(record, party) ==
    LET p == Get(record, party)
        type == Prop(p, "type")
        rocNo == Prop(p, "rocNo")
    IN /\ p.k = "obj"
       /\ \/ (type.k = "str" /\ type.s = <<"1">>)
          \/ (type.k = "num" /\ type.n = 1)
       /\ rocNo.k = "undef" \/ (rocNo.k = "str" /\ rocNo.s = << >>)

C9_CompanyWithoutRocIsReported ==
    HasReport =>
        \A n \in 1..Len(mappedData) :
            \A party \in Parties :
                CompanyWithoutRoc(mappedData[n], party) =>
                    \E x \in AllIssues :
                        /\ x.rowNumber = mappedData[n]._rowNumber
                        /\ x.fieldName = <<party, "rocNo">>
                        /\ x.errorType \in {"MISSING_FIELD", "MISSING_ID"}

\* a numeric company type with an empty ROC number, under the lenient
\* variant, in a record with another fault
C9_Witness ==
    /\ HasReport
    /\ validationResults.variant = "lenient"
    /\ \E n \in 1..Len(mappedData) :
          /\ CompanyWithoutRoc(mappedData[n], "transferor")
          /\ mappedData[n].transferor.f.type = Num(1)
    /\ \E x \in AllIssues :
          x.fieldName = <<"transferor", "rocNo">> /\ x.errorType = "MISSING_ID"

\* The header of a party's column
PartyHeader(party, column) ==
    CASE party = "transferor" /\ column = "type" -> "Transferor Type"
      [] party = "transferor" /\ column = "ic" -> "Transferor IC"
      [] party = "transferor" /\ column = "passport" -> "Transferor Passport"
      [] party = "transferor" /\ column = "country" -> "Transferor Passport Country"
      [] party = "transferee" /\ column = "type" -> "Transferee Type"
      [] party = "transferee" /\ column = "ic" -> "Transferee IC"
      [] party = "transferee" /\ column = "passport" -> "Transferee Passport"
      [] party = "transferee" /\ column = "country" -> "Transferee Passport Country"

IssueOn(rowNumber, fieldName) ==
    \E x \in AllIssues : x.rowNumber = rowNumber /\ x.fieldName = fieldName

\* C10: for an individual party of a mapped row, an issue on
\* '<party>.icNo' is reported iff the row has neither an IC number nor a
\* passport number; with a passport number and no IC, a missing passport
\* country is reported instead.
C10_PassportSatisfiesIdentity ==
    (HasReport /\ jsonData # << >>) =>
        \A n \in 1..Len(jsonData) :
            \A party \in Parties :
                LET row == jsonData[n]
                    hasIC == row[PartyHeader(party, "ic")] # EmptyStr
                    hasPassport == row[PartyHeader(party, "passport")] # EmptyStr
                    hasCountry == row[PartyHeader(party, "country")] # EmptyStr
                IN row[PartyHeader(party, "type")] = Str(<<"0">>) =>
                      /\ IssueOn(Num(n + 1), <<party, "icNo">>)
                            <=> (~hasIC /\ ~hasPassport)
                      /\ (~hasIC /\ hasPassport /\ ~hasCountry) =>
                            \/ IssueOn(Num(n + 1), <<party, "passportCountry">>)
                            \/ IssueOn(Num(n + 1), <<party, "pasportCountry">>)

\* The number of entries of a list of issues equal to the given issue
CountIssues(list, rowNumber, fieldName, errorType) ==
    Cardinality({ k \in 1..Len(list) :
                    list[k] = Issue(rowNumber, fieldName, errorType) })

Digits == {"0", "1", "2", "3", "4", "5", "6", "7", "8", "9"}

\* two digits '/' two digits '/' four digits, and nothing else
HasDateShape(s) ==
    /\ Len(s) = 10
    /\ \A n \in 1..10 : IF n \in {3, 6} THEN s[n] = "/" ELSE s[n] \in Digits

\* C11: for each of the two date fields of every validated record, the
\* errors of the report hold exactly one INVALID_DATE naming the field for
\* the record's row when the value is a non-empty string not of the shape
\* DD/MM/YYYY, and none when it is of that shape, empty or absent; an
\* INVALID_DATE is never a warning.
C11_InvalidDateByShape ==
    HasReport =>
        /\ \A w \in Range(validationResults.warnings) : w.errorType # "INVALID_DATE"
        /\ \A n \in 1..Len(mappedData) :
              \A f \in {"instrumentDate", "instrumentDateReceive"} :
                  LET value == Get(mappedData[n], f)
                      flagged == /\ value.k = "str"
                                 /\ value.s # << >>
                                 /\ ~HasDateShape(value.s)
                  IN CountIssues(validationResults.errors, Num(n + 1),
                                 <<f>>, "INVALID_DATE")
                         = (IF flagged THEN 1 ELSE 0)

\* one record with both dates malformed, text following the shape in one
\* and preceding it in the other, next to a record whose date has the
\* shape without being a calendar date
C11_Witness ==
    /\ HasReport
    /\ Len(mappedData) = 2
    /\ Len(mappedData[1].instrumentDate.s) = 11
    /\ Len(mappedData[1].instrumentDateReceive.s) = 11
    /\ mappedData[2].instrumentDate
          = Str(<<"9", "9", "/", "9", "9", "/", "9", "9", "9", "9">>)
    /\ CountIssues(validationResults.errors, Num(2), <<"instrumentDate">>,
                   "INVALID_DATE") = 1
    /\ CountIssues(validationResults.errors, Num(2), <<"instrumentDateReceive">>,
                   "INVALID_DATE") = 1
    /\ \A e \in Range(validationResults.errors) : e.rowNumber = Num(2)

\* The text left of s when the spaces at its two ends are taken away
Trimmed(s) ==
    CHOOSE t \in { SubSeq(s, a, b) : a \in 1..(Len(s) + 1), b \in 0..Len(s) } :
        /\ \E a \in 1..(Len(s) + 1), b \in 0..Len(s) :
              /\ t = SubSeq(s, a, b)
              /\ \A n \in 1..Len(s) : (n < a \/ n > b) => s[n] = " "
        /\ t # << >> => (t[1] # " " /\ t[Len(t)] # " ")

\* C12: a record that names an attachment gets a MISSING_FILE error for its
\* row iff the name, trimmed, is not a key of the attachment store (the
\* comparison being exact: a name differing by case is not a key), and no
\* MISSING_ATTACHMENT; a record that names none gets exactly one
\* MISSING_ATTACHMENT warning and no MISSING_FILE.
C12_AttachmentIssues ==
    HasReport =>
        \A n \in 1..Len(mappedData) :
            LET attachment == Get(mappedData[n], "attachment")
                named == attachment.k = "str" /\ attachment.s # << >>
                stored == /\ attachmentFiles.k = "map"
                          /\ Trimmed(attachment.s) \in attachmentFiles.keys
                missingFile ==
                    CountIssues(validationResults.errors, Num(n + 1),
                                <<"attachment">>, "MISSING_FILE")
                missingAttachment ==
                    CountIssues(validationResults.warnings, Num(n + 1),
                                <<"attachment">>, "MISSING_ATTACHMENT")
            IN /\ named => /\ missingFile = (IF stored THEN 0 ELSE 1)
                           /\ missingAttachment = 0
               /\ ~named => missingFile = 0 /\ missingAttachment = 1
               /\ CountIssues(validationResults.warnings, Num(n + 1),
                              <<"attachment">>, "MISSING_FILE") = 0
               /\ CountIssues(validationResults.errors, Num(n + 1),
                              <<"attachment">>, "MISSING_ATTACHMENT") = 0

\* a store holding a and b: the name ' b ' is found, the name 'A' is not
C12_Witness ==
    /\ HasReport
    /\ attachmentFiles.k = "map"
    /\ Len(mappedData) = 2
    /\ Get(mappedData[1], "attachment") = Str(<<" ", "b", " ">>)
    /\ Get(mappedData[2], "attachment") = Str(<<"A">>)
    /\ CountIssues(validationResults.errors, Num(2), <<"attachment">>,
                   "MISSING_FILE") = 0
    /\ CountIssues(validationResults.errors, Num(3), <<"attachment">>,
                   "MISSING_FILE") = 1

\* The required fields of the user guide, as paths of a record: Ref No,
\* Date Signed, Date Received, Principal/Sub, Instrument Type, Transferor
\* Type and Name, Transferee Type and Name, Consideration, No of Copies
DocumentedRequired ==
    { <<"refNo">>, <<"instrumentDate">>, <<"instrumentDateReceive">>,
      <<"principal">>, <<"typeOfInstrument">>,
      <<"transferor", "type">>, <<"transferor", "name">>,
      <<"transferee", "type">>, <<"transferee", "name">>,
      <<"consideration">>, <<"noOfCopy">> }

\* The value at a path of one or two parts; a path through a missing
\* sub-record leads to nothing
ValueAt(record, path) ==
    IF Len(path) = 1 THEN Get(record, path[1])
    ELSE Prop(Get(record, path[1]), path[2])

\* C13: a record in which a documented required field is absent, null or
\* the empty string gets a MISSING_FIELD error naming the field for its
\* row, and so is not among the records counted valid; the fields of a
\* missing party sub-record count as missing.
C13_DocumentedRequiredFields ==
    HasReport =>
        \A n \in 1..Len(mappedData) :
            \A path \in DocumentedRequired :
                LET value == ValueAt(mappedData[n], path)
                IN (value = Undef \/ value = Null \/ value = EmptyStr) =>
                      /\ CountIssues(validationResults.errors, Num(n + 1),
                                     path, "MISSING_FIELD") >= 1
                      /\ n \notin RecordsWithoutError
                      /\ validationResults.validCount < Len(mappedData)

-----------------------------------------------------------------------------
(* Properties of the serializer: attachments and rendering *)

\* The fragments appended so far, in the order of their appending
Emitted ==
    ConcatContents(batches)
    \o (IF pc = "done" THEN << >> ELSE currentBatch.instruments)

\* The n-th record names an attachment whose lookup returns nothing or
\* throws.
LookupFails(n) ==
    LET attachment == Get(mappedData[n], "attachment")
    IN /\ attachment.k = "str" /\ attachment.s # << >>
       /\ getAttachmentBase64.callable
       /\ Resolve(getAttachmentBase64, Trimmed(attachment.s)).k \in {"empty", "throw"}

\* The resolver that succeeds with an empty payload wherever the given
\* one returns nothing or throws
WithEmptyPayloads(resolver) ==
    [ callable |-> TRUE,
      out |-> [name \in {NameA, NameB, NameC} |->
                  IF Resolve(resolver, name).k = "data"
                  THEN Resolve(resolver, name)
                  ELSE [k |-> "data", len |-> 0]] ]

\* C14: a lookup that returns nothing or throws neither ends the run nor
\* drops the record: every record reached so far has its fragment, in input
\* order; the fragment of a record whose lookup failed has the record's
\* filename as name attribute and an empty attachment text; and every
\* fragment, the batch sizes and the progress calls are those of a run
\* whose lookups succeed with an empty payload in place of the failures.
C14_LookupFailureDegrades ==
    getAttachmentBase64.callable =>
        /\ pc \in {"loop", "done"}
        /\ Len(Emitted) = i
        /\ pc = "done" => i = Len(mappedData)
        /\ hasProgress => Len(progress) = i
        /\ \A n \in 1..i :
              /\ Emitted[n] = generateInstrumentXml(mappedData[n],
                                  WithEmptyPayloads(getAttachmentBase64))
              /\ LookupFails(n) =>
                    /\ Emitted[n].base64Len = 0
                    /\ Emitted[n].name = mappedData[n].attachment.s
        /\ \A b \in 1..Len(batches) :
              batches[b].size =
                  EnvelopeBytes
                  + SumInstrumentSizes(
                      [n \in 1..batches[b].recordCount |->
                          generateInstrumentXml(
                              mappedData[SumRecordCount(SubSeq(batches, 1, b - 1)) + n],
                              WithEmptyPayloads(getAttachmentBase64))])

\* a lookup that throws (for ' b', trimmed) and one that returns nothing
\* (for c), before a record whose lookup succeeds, all in one batch
C14_Witness ==
    /\ pc = "done"
    /\ hasProgress
    /\ Len(mappedData) = 3
    /\ LookupFails(1) /\ LookupFails(2) /\ ~LookupFails(3)
    /\ Resolve(getAttachmentBase64, NameB).k = "throw"
    /\ Get(mappedData[1], "attachment") = Str(<<" ", "b">>)
    /\ Resolve(getAttachmentBase64, NameC).k = "empty"
    /\ Get(mappedData[2], "attachment") = Str(NameC)
    /\ Get(mappedData[3], "attachment") = Str(NameA)
    /\ Len(batches) = 1
    /\ batches[1].content[1].base64Len = 0
    /\ batches[1].content[3].base64Len > 0

\* The n-th record names an attachment.
NamesAttachment(n) ==
    LET attachment == Get(mappedData[n], "attachment")
    IN attachment.k = "str" /\ attachment.s # << >>

\* C15: with a resolver that is not callable, the run ends with an error at
\* the first record that names an attachment: the fragment of such a record
\* is never appended, and the run does not return its batches as a
\* completed run does.
C15_ResolverUnavailableIsFatal ==
    ~getAttachmentBase64.callable =>
        \A n \in 1..Len(mappedData) :
            NamesAttachment(n) => (Len(Emitted) < n /\ pc # "done")

\* The five predefined entities of XML and the characters they stand for
Entities ==
    { [text |-> <<"&", "a", "m", "p", ";">>, char |-> "&"],
      [text |-> <<"&", "l", "t", ";">>, char |-> "<"],
      [text |-> <<"&", "g", "t", ";">>, char |-> ">"],
      [text |-> <<"&", "q", "u", "o", "t", ";">>, char |-> "\""],
      [text |-> <<"&", "a", "p", "o", "s", ";">>, char |-> "'"] }

StartsWith(s, prefix) ==
    Len(s) >= Len(prefix) /\ SubSeq(s, 1, Len(prefix)) = prefix

\* XML unescaping: one pass from the left, each entity read once
RECURSIVE XmlUnescape(_)
XmlUnescape(s) ==
    IF s = << >> THEN << >>
    ELSE IF \E e \in Entities : StartsWith(s, e.text)
    THEN LET e == CHOOSE x \in Entities : StartsWith(s, x.text)
         IN <<e.char>> \o XmlUnescape(SubSeq(s, Len(e.text) + 1, Len(s)))
    ELSE <<Head(s)>> \o XmlUnescape(Tail(s))

\* No < > " ' in the text, and every & starts one of the five entities
IsEscaped(s) ==
    \A n \in 1..Len(s) :
        /\ s[n] \notin {"<", ">", "\"", "'"}
        /\ s[n] = "&" =>
              \E e \in Entities : StartsWith(SubSeq(s, n, Len(s)), e.text)

\* C16: the rendered text of a string value (an element's text or the name
\* attribute) has none of < > " ' and no bare &, and XML unescaping gives
\* back the value, also when the value holds entity-like text.
C16_EscapeRoundTrip ==
    \A n \in 1..Len(Emitted) :
        LET str == mappedData[n].refNo.s
            rendered == { Emitted[n].text[1],
                          Emitted[n].text[Len(INSTRUMENT_HEAD) + 2],
                          Emitted[n].name }
        IN \A out \in rendered :
               /\ IsEscaped(out)
               /\ XmlUnescape(out) = str

\* the value '&amp;"', rendered as '&amp;amp;&quot;'
C16_Witness ==
    /\ pc = "done"
    /\ Len(batches) = 1
    /\ mappedData[1].refNo.s = <<"&", "a", "m", "p", ";", "\"">>
    /\ batches[1].content[1].name
          = <<"&", "a", "m", "p", ";", "a", "m", "p", ";",
              "&", "q", "u", "o", "t", ";">>

\* The paths of the 59 field elements of an instrument, in document order
ElementPaths ==
    [k \in 1..Len(INSTRUMENT_HEAD) |-> <<INSTRUMENT_HEAD[k]>>]
    \o [k \in 1..Len(PARTY_ELEMENTS) |-> <<"transferor", PARTY_ELEMENTS[k]>>]
    \o [k \in 1..Len(PARTY_ELEMENTS) |-> <<"transferee", PARTY_ELEMENTS[k]>>]
    \o [k \in 1..Len(INSTRUMENT_TAIL) |-> <<INSTRUMENT_TAIL[k]>>]

LiteralUndefined == <<"u", "n", "d", "e", "f", "i", "n", "e", "d">>
LiteralNull == <<"n", "u", "l", "l">>

\* C17: every record reached has its fragment, with the 59 field elements
\* in the one fixed order; the element of a field that is absent, undefined
\* or null (also through an absent sub-record) has empty text, and the text
\* 'undefined' or 'null' is rendered only for a field whose value is that
\* very string.
C17_SparseRecordsRender ==
    /\ Len(Emitted) = i
    /\ \A n \in 1..Len(Emitted) :
          /\ Len(Emitted[n].text) = 59
          /\ Len(Emitted[n].text) = Len(ElementPaths)
          /\ \A k \in 1..Len(ElementPaths) :
                LET value == ValueAt(mappedData[n], ElementPaths[k])
                    text == Emitted[n].text[k]
                IN /\ (value = Undef \/ value = Null) => text = << >>
                   /\ text \in {LiteralUndefined, LiteralNull} => value = Str(text)
          /\ Emitted[n].name \notin {LiteralUndefined, LiteralNull}

\* a record with nothing but its row number, and one with a null
\* transferor, a null refNo and an undefined consideration, both rendered
C17_Witness ==
    /\ pc = "done"
    /\ Len(batches) = 1
    /\ batches[1].recordCount = 2
    /\ DOMAIN mappedData[1] = {"_rowNumber"}
    /\ Get(mappedData[2], "transferor") = Null
    /\ Get(mappedData[2], "refNo") = Null
    /\ batches[1].content[1].text = [k \in 1..59 |-> << >>]
    /\ batches[1].content[2].text[1] = << >>

-----------------------------------------------------------------------------
(* Properties of the field mapper *)

\* The rows of a sheet have been mapped.
Mapped == stage \in {"mapped", "validated"} /\ jsonData # << >>

\* The entries of the dictionary
Dictionary == Range(COLUMN_MAP)

\* The field at a path of the dictionary is set in the record.
IsSet(record, path) ==
    IF Len(path) = 1 THEN path[1] \in DOMAIN record
    ELSE path[2] \in DOMAIN record[path[1]].f

\* C18: the mapper fails on no sheet, whatever its headers are, and the
\* k-th row of the sheet is mapped to the k-th record, which has
\* row number k + 1; a field of the dictionary is set in it iff the row has
\* a header the dictionary maps to the field, and then holds the cell of
\* such a header (a date cell possibly reformatted); the record has no
\* field besides those, so that other headers of the row leave no trace
\* in its fields.
C18_MapperTotalAndSparse ==
    /\ stage # "failed"
    /\ Mapped =>
        /\ Len(mappedData) = Len(jsonData)
        /\ \A k \in 1..Len(jsonData) :
              LET row == jsonData[k]
                  record == mappedData[k]
                  present(path) ==
                      { e.header : e \in { d \in Dictionary :
                                             d.path = path /\ d.header \in DOMAIN row } }
              IN /\ record._rowNumber = Num(k + 1)
                 /\ record._originalRow = Obj(row)
                 /\ \A d \in Dictionary :
                       /\ IsSet(record, d.path) <=> present(d.path) # {}
                       /\ IsSet(record, d.path) =>
                             \E h \in present(d.path) :
                                 \/ ValueAt(record, d.path) = row[h]
                                 \/ /\ h \in {"Date Signed", "Date Received"}
                                    /\ ValueAt(record, d.path) # EmptyStr
                 /\ DOMAIN record
                       = {"_rowNumber", "_originalRow", "transferor", "transferee"}
                         \cup { d.path[1] : d \in { e \in Dictionary :
                                      Len(e.path) = 1 /\ IsSet(record, e.path) } }
                 /\ \A party \in Parties :
                       DOMAIN record[party].f
                           = { d.path[2] : d \in { e \in Dictionary :
                                   /\ Len(e.path) = 2
                                   /\ e.path[1] = party
                                   /\ IsSet(record, e.path) } }

\* The date-bearing headers and the fields they are mapped to
DateHeaders ==
    { [header |-> "Date Signed", field |-> "instrumentDate"],
      [header |-> "Date Received", field |-> "instrumentDateReceive"] }

\* C19: under a date-bearing header, a cell of the shape DD/MM/YYYY is
\* mapped unchanged, a cell that reads as a date is mapped to text of the
\* shape DD/MM/YYYY, and any other cell is mapped unchanged; so validation
\* reports INVALID_DATE for the field iff the cell is non-empty, not of the
\* shape and does not read as a date.
C19_DateCellsMapped ==
    Mapped =>
        \A k \in 1..Len(jsonData) :
            \A d \in { x \in DateHeaders : x.header \in DOMAIN jsonData[k] } :
                LET cell == jsonData[k][d.header]
                    value == Get(mappedData[k], d.field)
                    canonical == HasDateShape(cell.s)
                    readable == JsDateParse(cell.s).valid
                IN /\ canonical => value = cell
                   /\ (~canonical /\ readable) =>
                         value.k = "str" /\ HasDateShape(value.s)
                   /\ (~canonical /\ ~readable) => value = cell
                   /\ HasReport =>
                         (CountIssues(validationResults.errors, Num(k + 1),
                                      <<d.field>>, "INVALID_DATE") > 0
                            <=> (cell.s # << >> /\ ~canonical /\ ~readable))

-----------------------------------------------------------------------------
(* Properties of the serializer: records per file *)

\* The number of records per file the user guide states
RecordsPerFile == 50

\* C20: no generated file holds more than 50 records, whatever the sizes
\* of the records are.
C20_FiftyRecordsPerFile ==
    \A b \in 1..Len(batches) : batches[b].recordCount <= RecordsPerFile

-----------------------------------------------------------------------------
(* Properties of the application *)

\* The file names the records name: the trimmed text of the attachment
\* cells that hold more than blanks
NamedFiles(data) ==
    { Trim(JsString(Get(data[n], "attachment"))) :
        n \in {m \in 1..Len(data) : Truthy(Get(data[m], "attachment"))} } \ {<< >>}

\* C21: whatever uploads and resets came before, the button that proceeds
\* from step 1 to step 2 is enabled only if there is mapped data, it is not
\* empty, and every file name its records name is a key of the store.
C21_ProceedOnlyWhenAllMatched ==
    ~proceedStep2Disabled =>
        /\ ~MappedDataIsNull
        /\ Len(mappedData) > 0
        /\ NamedFiles(mappedData) \subseteq attachmentFiles.keys

\* The button is enabled for records that name a file, from two cells that
\* differ by blanks only
C21_Witness ==
    /\ ~proceedStep2Disabled
    /\ ~MappedDataIsNull
    /\ Len(mappedData) = 2
    /\ NamedFiles(mappedData) = {NameA}
    /\ NameA \in attachmentFiles.keys

\* C22: startGeneration serializes only data for which the most recent
\* run of validateAll was on exactly that data and that store and reported
\* no error.  The step that disables startGeneration is the one that
\* serializes state.mappedData.
C22_GenerationOnlyOfValidatedData ==
    [][ (~startGenerationDisabled /\ startGenerationDisabled') =>
            /\ lastValidated = [data |-> mappedData, files |-> attachmentFiles]
            /\ validationResults.errorCount = 0 ]_vars

\* The errors validateAll reports for the data and the store of the state
MissingFileErrors ==
    LET errors == Report(validatorVariant, mappedData, attachmentFiles).errors
    IN {n \in 1..Len(errors) : errors[n].errorType = "MISSING_FILE"}

\* C28: whenever the button of step 1 is enabled, validateAll on the same
\* data and store reports no MISSING_FILE error, also for records whose
\* attachment cell holds blanks only.
C28_GateImpliesNoMissingFile ==
    ~proceedStep2Disabled => MissingFileErrors = {}

-----------------------------------------------------------------------------
(* Properties of the serializer: sizes and boundaries *)

\* C23: at every step the accumulated size of the running batch is the
\* UTF-8 byte length of the header, its fragments so far and the footer,
\* and the size of a finalized batch, the byte length of its content, is
\* what had been accumulated for it: the lengths of header and footer plus
\* the byte sizes of its fragments.
C23_AccumulatedSizeIsByteLength ==
    /\ currentBatch.size = ContentSize(currentBatch.instruments)
    /\ \A n \in 1..Len(batches) :
          batches[n].size = XML_HEADER_LENGTH + XML_FOOTER_LENGTH
                                + SumInstrumentSizes(batches[n].content)

\* A batch was finalized and the running one holds a fragment with a
\* character of two bytes
C23_Witness ==
    /\ Len(batches) >= 1
    /\ \E n \in 1..Len(currentBatch.instruments) :
          currentBatch.instruments[n].text[1] = <<EAcute>>

-----------------------------------------------------------------------------
(* Properties of the validator: order and independence *)

\* The place of x in a list, 0 when it is not in it
IndexIn(list, x) ==
    IF \E n \in 1..Len(list) : list[n] = x
    THEN CHOOSE n \in 1..Len(list) : list[n] = x
    ELSE 0

\* The place of an issue in the order of the checks: the mandatory fields
\* in the order of their list, the signed date, the received date, the
\* numeric fields, the attachment, the transferor's conditional fields,
\* the transferee's
CheckRank(variant, issue) ==
    LET mandatory == IF variant = "strict" THEN MANDATORY_FIELDS_STRICT
                     ELSE MANDATORY_FIELDS
    IN CASE issue.errorType = "MISSING_FIELD" /\ IndexIn(mandatory, issue.fieldName) > 0 ->
                IndexIn(mandatory, issue.fieldName)
         [] issue.errorType = "INVALID_DATE" /\ issue.fieldName = <<"instrumentDate">> -> 101
         [] issue.errorType = "INVALID_DATE" -> 102
         [] issue.errorType = "INVALID_NUMBER" -> 200
         [] issue.errorType \in {"MISSING_FILE", "MISSING_ATTACHMENT"} -> 300
         [] issue.fieldName[1] = "transferor" -> 400
         [] OTHER -> 500

\* a comes no later than b: an earlier record, or the same record and no
\* later check
InReportOrder(variant, a, b) ==
    \/ a.rowNumber.n < b.rowNumber.n
    \/ /\ a.rowNumber = b.rowNumber
       /\ CheckRank(variant, a) <= CheckRank(variant, b)

Ordered(variant, list) ==
    \A a, b \in 1..Len(list) : a < b => InReportOrder(variant, list[a], list[b])

\* C24: the errors and the warnings of a report are ordered by record in
\* input order, and within a record by check: mandatory fields in the
\* order of the list, dates (signed before received), attachment, the
\* transferor's conditional checks, the transferee's.
C24_IssuesInCheckOrder ==
    stage = "validated" =>
        /\ Ordered(validationResults.variant, validationResults.errors)
        /\ Ordered(validationResults.variant, validationResults.warnings)

\* A report whose errors start with both dates of the first record and go
\* on with the second record, and whose warnings come from both records
C24_Witness ==
    /\ stage = "validated"
    /\ Len(validationResults.errors) >= 3
    /\ validationResults.errors[1].fieldName = <<"instrumentDate">>
    /\ validationResults.errors[2].fieldName = <<"instrumentDateReceive">>
    /\ validationResults.errors[3].rowNumber # validationResults.errors[1].rowNumber
    /\ Len(validationResults.warnings) >= 2
    /\ validationResults.warnings[1].rowNumber # validationResults.warnings[2].rowNumber

\* The report on the records of the state from the a-th to the b-th, with
\* the variant and the store of the state
PartReport(a, b) ==
    Report(validationResults.variant, SubSeq(mappedData, a, b), attachmentFiles)

\* C25: validation is record-wise independent: for the records split at
\* any place into xs and ys, the errors of the report are those of xs
\* followed by those of ys, likewise the warnings, and validCount is the
\* sum; a record's issues depend neither on other records nor on its place.
C25_ReportIsConcatenation ==
    stage = "validated" =>
        \A k \in 0..Len(mappedData) :
            LET xs == PartReport(1, k)
                ys == PartReport(k + 1, Len(mappedData))
            IN /\ validationResults.errors = xs.errors \o ys.errors
               /\ validationResults.warnings = xs.warnings \o ys.warnings
               /\ validationResults.validCount = xs.validCount + ys.validCount

\* Two records were validated, the first with errors and a warning, the
\* second counted valid with a warning
C25_Witness ==
    /\ stage = "validated"
    /\ Len(mappedData) = 2
    /\ PartReport(1, 1).errors # << >>
    /\ PartReport(1, 1).warnings # << >>
    /\ PartReport(2, 2).validCount = 1
    /\ PartReport(2, 2).warnings # << >>

\* The batches emitted so far, followed by the running batch when it
\* holds a fragment: its size and its first fragment
BatchesInOrder ==
    [n \in 1..Len(batches) |->
        [size |-> batches[n].size, first |-> batches[n].content[1]]]
    \o (IF pc = "loop" /\ Len(currentBatch.instruments) > 0
        THEN <<[size |-> currentBatch.size, first |-> currentBatch.instruments[1]]>>
        ELSE << >>)

\* C26: batches are closed only when necessary: for consecutive batches,
\* the size accounted for the earlier one plus the byte size of the first
\* fragment of the later one exceeds the maximum batch size.
C26_ClosedOnlyWhenNecessary ==
    \A n \in 1..(Len(BatchesInOrder) - 1) :
        BatchesInOrder[n].size + InstrumentSize(BatchesInOrder[n + 1].first)
            > MAX_BATCH_SIZE

\* The run is over with two batches, the first of two records that fill
\* it exactly, the second opened by a fragment of one byte or more
C26_Witness ==
    /\ pc = "done"
    /\ Len(batches) = 2
    /\ batches[1].recordCount = 2
    /\ batches[1].size = MAX_BATCH_SIZE

-----------------------------------------------------------------------------
(* Properties of the serializer: values that are falsy *)

\* C27: every field value that is present and not the empty string, the
\* number 0 included, is rendered as the escaped string form of the
\* value, never as empty text; the text of an element is empty only for a
\* field that is absent, null or the empty string.
C27_PresentValuesAreRendered ==
    \A n \in 1..Len(Emitted) :
        \A k \in 1..Len(ElementPaths) :
            LET value == ValueAt(mappedData[n], ElementPaths[k])
                text == Emitted[n].text[k]
            IN IF value \in {Undef, Null, EmptyStr}
               THEN text = << >>
               ELSE text = escapeXml(value) /\ text # << >>

-----------------------------------------------------------------------------
(* Inputs of the field mapper: sheets with several attachment columns *)

MaxAliasRows == 1

\* The headers of the dictionary that map to attachment, in its order
AttachmentAliases == <<"Filename Only", "Attachment", "Attachment Filename">>

\* The cell under an attachment header: no such column, empty, or a name
AliasCells(name) == { Undef, EmptyStr, Str(name) }

\* A row with a reference number and any of the attachment columns
AliasRow(filenameOnly, attachment, attachmentFilename) ==
    LET cells == ("Filename Only" :> filenameOnly) @@ ("Attachment" :> attachment)
                 @@ ("Attachment Filename" :> attachmentFilename)
    IN [h \in {"Ref No"} \cup {a \in DOMAIN cells : cells[a] # Undef} |->
           IF h = "Ref No" THEN Str(<<"r">>) ELSE cells[h]]

AliasRows ==
    { AliasRow(f, a, n) :
        f \in AliasCells(NameA), a \in AliasCells(NameB), n \in AliasCells(NameC) }

AliasInit ==
    /\ GenIdle
    /\ AppIdle
    /\ DbIdle
    /\ attachmentFiles \in Stores
    /\ validationResults = Null
    /\ stage = "raw"
    /\ jsonData \in SeqsUpTo(AliasRows, MaxAliasRows)
    /\ mappedData = Null

AliasSpec == AliasInit /\ [][ValNext]_vars

-----------------------------------------------------------------------------
(* Properties of the field mapper: attachment columns *)

\* The places in AttachmentAliases of the headers a row has
AliasesPresent(row) == {k \in 1..Len(AttachmentAliases) : AttachmentAliases[k] \in DOMAIN row}

Max(S) == CHOOSE x \in S : \A y \in S : y <= x

\* C29: for a row with more than one of the attachment headers, the
\* mapped attachment is the cell under the one that comes last in the
\* dictionary among those the row has, also when that cell is empty and
\* an earlier one holds a name.
C29_LastAttachmentColumnWins ==
    Mapped =>
        \A n \in 1..Len(jsonData) :
            Cardinality(AliasesPresent(jsonData[n])) > 1 =>
                Get(mappedData[n], "attachment")
                    = jsonData[n][AttachmentAliases[Max(AliasesPresent(jsonData[n]))]]

\* A row with a name under 'Attachment' and an empty cell under
\* 'Attachment Filename' was mapped to an empty attachment
C29_Witness ==
    /\ Mapped
    /\ Len(jsonData) = 1
    /\ Get(jsonData[1], "Attachment") = Str(NameB)
    /\ Get(jsonData[1], "Attachment Filename") = EmptyStr
    /\ Get(mappedData[1], "attachment") = EmptyStr

-----------------------------------------------------------------------------
(* Requests to the server *)

MaxIds == 3

\* The ids a request names
RequestIds == 1..MaxIds

DbInit ==
    /\ GenIdle
    /\ ValIdle
    /\ AppIdle
    /\ DbIdle
    /\ mappedData = Null

DbNext ==
    \/ CreateProject(MaxIds)
    \/ \E id \in RequestIds : DeleteProject(id)
    \/ \E projectId \in RequestIds : SaveGeneration(projectId, MaxIds)

DbSpec == DbInit /\ [][DbNext]_vars

\* C30: after any create-project, delete-project and save-generation
\* requests, the project_id of every stored generation is the id of a
\* stored project.
C30_GenerationsReferToProjects ==
    \A n \in 1..Len(generations) :
        \E m \in 1..Len(projects) : projects[m].id = generations[n].project_id

====
